---- MODULE Spec2Model ----
(***************************************************************************)
(* stackwiz-mcp: the create_stack and manage_stack tools of server.py, the  *)
(* stack operations of tools/stack_operations.py and the helpers of        *)
(* utils/stack_utils.py they call (specification Spec); get_stack_status   *)
(* as a function (SpecStatus); the Cloudflare client of server.py          *)
(* (SpecCf); the DNS tools (SpecDns); the health checks of utils/health.py *)
(* (SpecHealth); the operation counter of ServerState (SpecOps);           *)
(* validate_stack_config and ValidationResult (SpecValidate); list_stacks  *)
(* (SpecList); slugify and render_template as functions (SpecText);       *)
(* remove_stack with the engine's containers (SpecRemove).                 *)
(*                                                                         *)
(* Names are sequences of one-character strings, so that slugify and the   *)
(* StackConfig name validation are computed character by character.        *)
(* The container engine, the DNS script and the operating system are       *)
(* outside the program: what they answer to one call is drawn per call.    *)
(***************************************************************************)
EXTENDS Integers, Sequences, FiniteSets, TLC

VARIABLES
    fs,          \* base directory: existing stack directory |-> its entries
    call,        \* the last tool invocation: arguments, ordered effects, response
    probe,       \* one evaluation of get_stack_status: arguments and value
    cf,          \* one call of cloudflare_api_request: loop position, log, result
    zone,        \* the provider's records of a name and the last DNS tool call
    hc,          \* one run of HealthChecker.check_all
    ops,         \* ServerState.operation_count and the tool invocations so far
    vc,          \* one call of validate_stack_config: directory, arguments, response
    ls,          \* one call of list_stacks: directory, arguments, result
    fn,          \* one evaluation of a string function: arguments and value
    engine,      \* the containers the engine holds for each stack
    race,        \* two create_stack calls in progress on one slug
    zc,          \* the zone-ID cache, the clock and the last get_cloudflare_zone_id call
    ip,          \* one call of create_dns_record: the requests sent and the response
    logctx,      \* the log-record factory and the LogContext objects in use
    rpc,         \* the secondary server: input lines read, responses written, counter
    life         \* the lifespan of the primary server: the steps taken so far

vars == <<fs, call, probe, cf, zone, hc, ops, vc, ls, fn, engine, race, zc, ip, logctx, rpc, life>>

----------------------------------------------------------------------------
(* Characters and strings                                                  *)

LowerLetters == <<"a","b","c","d","e","f","g","h","i","j","k","l","m",
                  "n","o","p","q","r","s","t","u","v","w","x","y","z">>

UpperLetters == <<"A","B","C","D","E","F","G","H","I","J","K","L","M",
                  "N","O","P","Q","R","S","T","U","V","W","X","Y","Z">>

Digits == {"0","1","2","3","4","5","6","7","8","9"}

Range(s) == {s[i] : i \in DOMAIN s}

IsLowerAlnum(c) == c \in Range(LowerLetters) \cup Digits

\* str.lower() on one character
LowerChar(c) ==
    IF c \in Range(UpperLetters)
    THEN LowerLetters[CHOOSE i \in DOMAIN UpperLetters : UpperLetters[i] = c]
    ELSE c

\* str.lower()
Lower(s) == [i \in DOMAIN s |-> LowerChar(s[i])]

\* Variant: every other character becomes a '-' of its own
CollapseRuns_each(s) == [i \in DOMAIN s |-> IF IsLowerAlnum(s[i]) THEN s[i] ELSE "-"]

\* re.sub(r'[^a-z0-9]+', '-', s): every maximal run of other characters becomes one '-'
RECURSIVE CollapseRuns(_)
CollapseRuns(s) ==
    IF s = <<>> THEN <<>>
    ELSE IF IsLowerAlnum(Head(s)) THEN <<Head(s)>> \o CollapseRuns(Tail(s))
    ELSE IF Len(s) > 1 /\ ~IsLowerAlnum(s[2]) THEN CollapseRuns(Tail(s))
    ELSE <<"-">> \o CollapseRuns(Tail(s))

\* str.strip('-')
RECURSIVE StripLeft(_)
StripLeft(s) == IF s # <<>> /\ Head(s) = "-" THEN StripLeft(Tail(s)) ELSE s

RECURSIVE StripRight(_)
StripRight(s) ==
    IF s # <<>> /\ s[Len(s)] = "-" THEN StripRight(SubSeq(s, 1, Len(s) - 1)) ELSE s

Strip(s) == StripRight(StripLeft(s))

slugify(name) == Strip(CollapseRuns(Lower(name)))

\* Field(pattern="^[a-z0-9-]+$") of StackConfig.name
MatchesNamePattern(v) ==
    /\ Len(v) >= 1
    /\ \A i \in DOMAIN v : IsLowerAlnum(v[i]) \/ v[i] = "-"

\* v.replace("-", "").isalnum(): some character is left, and each is alphanumeric
IsAlnumWithoutHyphens(v) ==
    /\ \E i \in DOMAIN v : v[i] # "-"
    /\ \A i \in DOMAIN v :
          v[i] = "-" \/ IsLowerAlnum(v[i]) \/ v[i] \in Range(UpperLetters)

MinNameLen == 3
MaxNameLen == 50

\* StackConfig.validate_name, after the pattern constraint
validate_name(v) ==
    /\ MatchesNamePattern(v)
    /\ Len(v) >= MinNameLen
    /\ Len(v) <= MaxNameLen
    /\ IsAlnumWithoutHyphens(v)

----------------------------------------------------------------------------
(* utils/stack_utils.py                                                    *)

\* SYSTEM_STACKS
SYSTEM_STACKS == {
    <<"t","r","a","e","f","i","k">>,
    <<"m","o","n","i","t","o","r","i","n","g">>,
    <<"s","u","p","a","b","a","s","e">>,
    <<"a","d","g","u","a","r","d">>,
    <<"_","b","a","c","k","u","p">>,
    <<"_","s","c","r","i","p","t","s">>,
    <<"_","t","e","m","p","l","a","t","e","s">>,
    <<"d","o","c","s">> }

\* get_stack_path: <base>/<stack_name>; a directory of the base directory is
\* identified by its name, so the path of a stack is its name
get_stack_path(stack_name) == stack_name

\* Variant: an existence check that always passes
stack_exists_always(f, stack_name) == TRUE

\* stack_exists: os.path.exists(get_stack_path(stack_name)) in the directory tree f
stack_exists(f, stack_name) == get_stack_path(stack_name) \in DOMAIN f

ComposeFileNames == <<"docker-compose.yml", "docker-compose.yaml", "compose.yml", "compose.yaml">>

NoFile == "<none>"

\* get_docker_compose_file: the first recognized file name among the entries
get_docker_compose_file(entries) ==
    IF \E i \in DOMAIN ComposeFileNames : ComposeFileNames[i] \in entries
    THEN ComposeFileNames[CHOOSE i \in DOMAIN ComposeFileNames :
            /\ ComposeFileNames[i] \in entries
            /\ \A j \in 1..(i - 1) : ComposeFileNames[j] \notin entries]
    ELSE NoFile

\* One effect of a call, in program order: kind, the directory (or raw name) it
\* concerns, its argument list, and how it ended
Event(kind, dir, arg, res) == [kind |-> kind, dir |-> dir, arg |-> arg, res |-> res]

\* run_docker_compose(stack_path, command): fails without starting a process when
\* the directory holds no compose file; otherwise the process runs and `ok` is
\* whether it exited 0
run_docker_compose(entries, stack_path, command, ok) ==
    IF get_docker_compose_file(entries) = NoFile
    THEN [success |-> FALSE, trace |-> <<Event("compose", stack_path, command, "nofile")>>]
    ELSE [success |-> ok,
          trace |-> <<Event("compose", stack_path, command, IF ok THEN "ok" ELSE "fail")>>]

PsCommand == <<"ps", "--format", "json">>

\* get_container_status: [] without asking when there is no compose file; else
\* the engine's reply to `compose ps` (a failed or unparsable reply is the empty list)
get_container_status(entries, stack_path, reply) ==
    IF get_docker_compose_file(entries) = NoFile
    THEN [containers |-> <<>>, trace |-> <<>>]
    ELSE [containers |-> reply, trace |-> <<Event("compose", stack_path, PsCommand, "ok")>>]

S_running == <<"r","u","n","n","i","n","g">>
S_up      == <<"u","p">>
S_Up      == <<"U","p">>
S_exited  == <<"e","x","i","t","e","d">>
S_stopped == <<"s","t","o","p","p","e","d">>
S_created == <<"c","r","e","a","t","e","d">>
S_paused  == <<"p","a","u","s","e","d">>

\* Variant: any running container makes the stack "running"
get_stack_status_anyRunning(containers, exists) ==
    IF containers = <<>> THEN (IF exists THEN "created" ELSE "error")
    ELSE IF \E i \in DOMAIN containers : Lower(containers[i]) \notin
                {S_running, S_up, S_exited, S_stopped, S_created} THEN "error"
    ELSE IF \E i \in DOMAIN containers : Lower(containers[i]) \in {S_running, S_up}
    THEN "running"
    ELSE "stopped"

\* get_stack_status on the container list and the directory's presence
get_stack_status(containers, exists) ==
    LET state(i) == Lower(containers[i])
        running == Cardinality({i \in DOMAIN containers : state(i) \in {S_running, S_up}})
        stopped == Cardinality({i \in DOMAIN containers :
                        state(i) \in {S_exited, S_stopped, S_created}})
        error   == Cardinality({i \in DOMAIN containers :
                        state(i) \notin {S_running, S_up, S_exited, S_stopped, S_created}})
    IN  IF containers = <<>> THEN (IF exists THEN "created" ELSE "error")
        ELSE IF error > 0 THEN "error"
        ELSE IF running > 0 /\ stopped = 0 THEN "running"
        ELSE IF stopped > 0 /\ running = 0 THEN "stopped"
        ELSE "created"

----------------------------------------------------------------------------
(* models/stack_models.py: parameter and result records                     *)

DefaultLines == 100
MinLines == 1
MaxLines == 10000

\* StackOperationParams(name, force=False)
StackOperationParams(name, force) == [name |-> name, force |-> force]

\* StackLogsParams(name, lines=100, service=None, follow=False); no service is
\* ever passed by a caller in this repository
StackLogsParams(name, lines, follow) == [name |-> name, lines |-> lines, follow |-> follow]

\* The response of a tool: the fields the callers read, one shape for all tools
Response(success, message, error) ==
    [success |-> success, message |-> message, error |-> error,
     name |-> <<>>, status |-> "-", dns_created |-> FALSE, auto_started |-> FALSE,
     tail |-> 0]

\* What a handler did: its effects in order, its response, the directory tree after
Outcome(trace, res, f) == [trace |-> trace, res |-> res, fs |-> f]

ExistsEvent(f, name) ==
    Event("exists", name, <<>>, IF stack_exists(f, name) THEN "yes" ELSE "no")

Entries(f, name) == IF name \in DOMAIN f THEN f[name] ELSE {}

\* The directory tree without directory name
RemoveDir(f, name) == [d \in (DOMAIN f) \ {name} |-> f[d]]

\* The directory tree with directory name holding entries
PutDir(f, name, entries) ==
    [d \in (DOMAIN f) \cup {name} |-> IF d = name THEN entries ELSE f[d]]

----------------------------------------------------------------------------
(* tools/stack_operations.py                                                *)
(* reply: the engine's answer to the first `compose ps` of the call;        *)
(* ok: whether the lifecycle command exits 0; the reply to the second       *)
(* `compose ps` (after a successful command) only fills the details of the  *)
(* response and is not kept.                                                *)

NotFound(f, stack_name) ==
    Outcome(<<ExistsEvent(f, stack_name)>>,
            Response(FALSE, "Stack does not exist", "Stack not found"), f)

\* The status check shared by start, stop, restart and remove
StatusOf(f, stack_name, reply) ==
    LET cs == get_container_status(Entries(f, stack_name), get_stack_path(stack_name), reply)
    IN  [status |-> get_stack_status(cs.containers, stack_exists(f, stack_name)),
         trace |-> cs.trace]

\* start_stack / stop_stack / restart_stack share one shape: skip when the status
\* is already `noop`, else run `command`
LifecycleOp(f, params, reply, ok, noop, command, done, failed) ==
    LET stack_name == params.name
        st  == StatusOf(f, stack_name, reply)
        run == run_docker_compose(Entries(f, stack_name), get_stack_path(stack_name), command, ok)
        after == get_container_status(Entries(f, stack_name), get_stack_path(stack_name), <<>>)
    IN  IF ~stack_exists(f, stack_name) THEN NotFound(f, stack_name)
        ELSE IF st.status = noop
        THEN Outcome(<<ExistsEvent(f, stack_name)>> \o st.trace,
                     [Response(TRUE, "already " \o noop, "") EXCEPT !.status = st.status], f)
        ELSE IF run.success
        THEN Outcome(<<ExistsEvent(f, stack_name)>> \o st.trace \o run.trace \o after.trace,
                     [Response(TRUE, done, "") EXCEPT !.status = st.status], f)
        ELSE Outcome(<<ExistsEvent(f, stack_name)>> \o st.trace \o run.trace,
                     [Response(FALSE, failed, "stderr") EXCEPT !.status = st.status], f)

\* Variant: start without the already-running shortcut
start_stack_noSkip(f, params, reply, ok) ==
    LifecycleOp(f, params, reply, ok, "<never>", <<"up", "-d">>,
                "started successfully", "Failed to start stack")

start_stack(f, params, reply, ok) ==
    LifecycleOp(f, params, reply, ok, "running", <<"up", "-d">>,
                "started successfully", "Failed to start stack")

\* Variant: stop also deletes the directory of the stack
stop_stack_deletes(f, params, reply, ok) ==
    Outcome(<<ExistsEvent(f, params.name)>>, Response(TRUE, "stopped successfully", ""),
            RemoveDir(f, params.name))

stop_stack(f, params, reply, ok) ==
    LifecycleOp(f, params, reply, ok, "stopped", <<"down">>,
                "stopped successfully", "Failed to stop stack")

\* restart_stack never skips: no status equals "<never>"
restart_stack(f, params, reply, ok) ==
    LifecycleOp(f, params, reply, ok, "<never>", <<"restart">>,
                "restarted successfully", "Failed to restart stack")

\* shutil.rmtree(stack_path): rm = "ok" deletes the tree, "raise" is an error of
\* the operating system that leaves the directory in place
rmtree(f, stack_path, rm) ==
    IF rm = "ok" THEN RemoveDir(f, stack_path) ELSE f

\* Variant: no system-stack protection
Protected_never(stack_name, force) == FALSE

\* `stack_name in SYSTEM_STACKS and not params.force`
Protected(stack_name, force) == stack_name \in SYSTEM_STACKS /\ ~force

\* Variant: force does not add -v
DownCommand_keepVolumes(force) == <<"down">>

\* cmd = ["down"], plus "-v" when force is set
DownCommand(force) == IF force THEN <<"down", "-v">> ELSE <<"down">>

remove_stack(f, params, reply, ok, rm) ==
    LET stack_name == params.name
        stack_path == get_stack_path(stack_name)
        st   == StatusOf(f, stack_name, reply)
        cmd  == DownCommand(params.force)
        run  == run_docker_compose(Entries(f, stack_name), stack_path, cmd, ok)
        head == <<ExistsEvent(f, stack_name)>> \o st.trace
        stop == IF st.status = "running" THEN run.trace ELSE <<>>
        del  == <<Event("rmtree", stack_path, <<>>, rm)>>
    IN  IF ~stack_exists(f, stack_name) THEN NotFound(f, stack_name)
        ELSE IF Protected(stack_name, params.force)
        THEN Outcome(<<ExistsEvent(f, stack_name)>>,
                     Response(FALSE, "Cannot remove system stack without force flag",
                              "Protected system stack"), f)
        ELSE IF st.status = "running" /\ ~run.success
        THEN Outcome(head \o stop,
                     [Response(FALSE, "Failed to stop stack before removal", "stderr")
                        EXCEPT !.status = st.status], f)
        ELSE IF rm = "ok"
        THEN Outcome(head \o stop \o del,
                     [Response(TRUE, "removed successfully", "")
                        EXCEPT !.status = st.status], rmtree(f, stack_path, rm))
        ELSE Outcome(head \o stop \o del,
                     [Response(FALSE, "Failed to remove stack directory", "oserror")
                        EXCEPT !.status = st.status], rmtree(f, stack_path, rm))

TailOption(lines) == "--tail=" \o ToString(lines)

LogsCommand(lines) == <<"logs", TailOption(lines)>>

get_stack_logs(f, params, ok) ==
    LET stack_name == params.name
        run == run_docker_compose(Entries(f, stack_name), get_stack_path(stack_name),
                                  LogsCommand(params.lines), ok)
    IN  IF ~stack_exists(f, stack_name) THEN NotFound(f, stack_name)
        ELSE IF params.follow
        THEN Outcome(<<ExistsEvent(f, stack_name)>>,
                     Response(FALSE, "Follow mode is not supported in this context",
                              "Unsupported operation"), f)
        ELSE IF run.success
        THEN Outcome(<<ExistsEvent(f, stack_name)>> \o run.trace,
                     [Response(TRUE, "Retrieved log lines", "") EXCEPT !.tail = params.lines], f)
        ELSE Outcome(<<ExistsEvent(f, stack_name)>> \o run.trace,
                     Response(FALSE, "Failed to get logs", "stderr"), f)

----------------------------------------------------------------------------
(* server.py: create_stack                                                  *)

None == "None"

StackTypes == {"generic", "pocketbase"}

\* StackConfig(...): the pattern and validate_name on the name, the StackType
\* enumeration on the type, validate_generic_requirements on image and port
StackConfigValid(name, type, image, port) ==
    /\ validate_name(name)
    /\ type \in StackTypes
    /\ type = "generic" => (image # None /\ port # None)

BaseDirs == {"data", "config"}
PocketbaseDirs == {"pb_data", "pb_public", "pb_migrations", "pb_hooks"}

Mkdir(stack_path, sub) == Event("makedirs", stack_path, <<sub>>, "ok")

\* os.makedirs of the stack root, data/ and config/, then the pocketbase directories
MakeDirsTrace(stack_path, type) ==
    <<Event("makedirs", stack_path, <<>>, "ok"), Mkdir(stack_path, "data"),
      Mkdir(stack_path, "config")>>
    \o (IF type = "pocketbase"
        THEN <<Mkdir(stack_path, "pb_data"), Mkdir(stack_path, "pb_public"),
               Mkdir(stack_path, "pb_migrations"), Mkdir(stack_path, "pb_hooks")>>
        ELSE <<>>)

MadeDirs(type) == BaseDirs \cup (IF type = "pocketbase" THEN PocketbaseDirs ELSE {})

WriteFile(stack_path, file, res) == Event("write", stack_path, <<file>>, res)

\* The template and file steps of create_stack: the files written, in order, and
\* whether a step raised. tpl: the template directory; ioerr: the step at which the
\* operating system refuses a write ("none", "env" or "compose")
RenderSteps(stack_path, type, tpl, ioerr) ==
    LET envFail == WriteFile(stack_path, ".env", "raise")
        envOk   == WriteFile(stack_path, ".env", "ok")
        ymlFail == WriteFile(stack_path, "docker-compose.yml", "raise")
        ymlOk   == WriteFile(stack_path, "docker-compose.yml", "ok")
        readme  == WriteFile(stack_path, "README.md", "ok")
    IN  IF type = "pocketbase" /\ "pocketbase-env-template" \notin tpl
        THEN [raised |-> TRUE, error |-> "No such file or directory", files |-> {},
              trace |-> <<Event("read", stack_path, <<"pocketbase-env-template">>, "raise")>>]
        ELSE IF ioerr = "env"
        THEN [raised |-> TRUE, error |-> "oserror", files |-> {}, trace |-> <<envFail>>]
        ELSE IF ioerr = "compose"
        THEN [raised |-> TRUE, error |-> "oserror", files |-> {".env"},
              trace |-> <<envOk, ymlFail>>]
        ELSE IF type = "pocketbase" /\ "README-pocketbase.md" \in tpl
        THEN [raised |-> FALSE, error |-> "",
              files |-> {".env", "docker-compose.yml", "README.md"},
              trace |-> <<envOk, ymlOk, readme>>]
        ELSE [raised |-> FALSE, error |-> "", files |-> {".env", "docker-compose.yml"},
              trace |-> <<envOk, ymlOk>>]

\* Variant: dns_created set whenever the script was run, whatever its exit status
DnsStep_assumed(stack_path, create_dns, dns) ==
    IF create_dns /\ dns # "absent"
    THEN [created |-> TRUE,
          trace |-> <<Event("script", stack_path, <<"cloudflare-dns-create.sh">>, dns)>>]
    ELSE [created |-> FALSE, trace |-> <<>>]

\* The DNS sub-step: dns is "absent" (no script file), "fail" or "ok"
DnsStep(stack_path, create_dns, dns) ==
    IF create_dns /\ dns # "absent"
    THEN [created |-> dns = "ok",
          trace |-> <<Event("script", stack_path, <<"cloudflare-dns-create.sh">>, dns)>>]
    ELSE [created |-> FALSE, trace |-> <<>>]

\* The write of /tmp/create-stack-<name>-<timestamp>.txt that opens the handler
TestFileTrace(name) == <<Event("write_tmp", name, <<>>, "ok")>>

\* Variant: a failed creation restores the tree it started from
AfterRaise_rollback(f, made) == f

\* `except Exception`: the error is returned and nothing is undone, the tree stays
\* as the steps before the exception made it
AfterRaise(f, made) == made

\* The name create_stack works with after StackConfig accepted the request
SanitizedName(name) == slugify(name)

create_stack(f, tpl, name, type, image, port, create_dns, auto_start, dns, upOk, ioerr) ==
    LET sanitized_name == SanitizedName(name)
        stack_path == get_stack_path(sanitized_name)
        check  == <<ExistsEvent(f, sanitized_name)>>
        dirs   == MakeDirsTrace(stack_path, type)
        render == RenderSteps(stack_path, type, tpl, ioerr)
        made   == PutDir(f, stack_path, MadeDirs(type) \cup render.files)
        dnsr   == DnsStep(stack_path, create_dns, dns)
        up     == IF auto_start
                  THEN run_docker_compose(made[stack_path], stack_path, <<"up", "-d">>, upOk)
                  ELSE [success |-> FALSE, trace |-> <<>>]
    IN  IF ~StackConfigValid(name, type, image, port)
        THEN Outcome(TestFileTrace(name), Response(FALSE, "", "validation error"), f)
        ELSE IF stack_exists(f, sanitized_name)
        THEN Outcome(TestFileTrace(name) \o check,
                     [Response(FALSE, "", "already exists") EXCEPT !.name = sanitized_name], f)
        ELSE IF render.raised
        THEN Outcome(TestFileTrace(name) \o check \o dirs \o render.trace,
                     Response(FALSE, "", render.error), AfterRaise(f, made))
        ELSE Outcome(TestFileTrace(name) \o check \o dirs \o render.trace
                        \o dnsr.trace \o up.trace,
                     [Response(TRUE, "created successfully", "")
                        EXCEPT !.name = sanitized_name,
                               !.status = IF up.success THEN "running" ELSE "created",
                               !.dns_created = dnsr.created,
                               !.auto_started = up.success],
                     made)

----------------------------------------------------------------------------
(* server.py: manage_stack                                                  *)

\* Variant: follow_logs not passed on to the handler
ServerLogsParams_noFollow(stack_name, follow_logs, tail_lines) ==
    StackLogsParams(stack_name, DefaultLines, FALSE)

\* StackLogsParams(name=stack_name, follow=follow_logs, tail=tail_lines): the model
\* has no field `tail`, the keyword is dropped and `lines` keeps its default
ServerLogsParams(stack_name, follow_logs, tail_lines) ==
    StackLogsParams(stack_name, DefaultLines, follow_logs)

Prefix(ev, out) == [out EXCEPT !.trace = <<ev>> \o out.trace]

\* Variant: the remove branch asks for a forced removal
RemoveParams_forced(stack_name) == StackOperationParams(stack_name, TRUE)

\* The remove branch: StackOperationParams(name=stack_name), force keeps its
\* default False
RemoveParams(stack_name) == StackOperationParams(stack_name, FALSE)

manage_stack(f, stack_name, action, follow_logs, tail_lines, reply, ok, rm) ==
    LET params == StackOperationParams(stack_name, FALSE)
        first  == ExistsEvent(f, stack_name)
    IN  IF ~stack_exists(f, stack_name)
        THEN Outcome(<<first>>, Response(FALSE, "", "Stack '<stack_name>' not found"), f)
        ELSE IF action = "start" THEN Prefix(first, start_stack(f, params, reply, ok))
        ELSE IF action = "stop" THEN Prefix(first, stop_stack(f, params, reply, ok))
        ELSE IF action = "restart" THEN Prefix(first, restart_stack(f, params, reply, ok))
        ELSE IF action = "remove"
        THEN Prefix(first, remove_stack(f, RemoveParams(stack_name), reply, ok, rm))
        ELSE IF action = "logs"
        THEN Prefix(first, get_stack_logs(f,
                        ServerLogsParams(stack_name, follow_logs, tail_lines), ok))
        ELSE Outcome(<<first>>, Response(FALSE, "", "Unknown action"), f)

----------------------------------------------------------------------------
(* No evaluation, call or run in progress                                   *)

ProbeIdle == [pc |-> "idle"]
CfIdle == [pc |-> "idle"]
ZoneIdle == [pc |-> "idle"]
HcIdle == [pc |-> "idle"]
OpsIdle == [pc |-> "idle"]
VcIdle == [pc |-> "idle"]
LsIdle == [pc |-> "idle"]
FnIdle == [pc |-> "idle"]
EngineIdle == [pc |-> "idle"]
RaceIdle == [pc |-> "idle"]
ZcIdle == [pc |-> "idle"]
IpIdle == [pc |-> "idle"]
LogIdle == [pc |-> "idle"]
RpcIdle == [pc |-> "idle"]
LifeIdle == [pc |-> "idle"]

----------------------------------------------------------------------------
(* The requests and the environment's answers the model draws from          *)

N_MyApp    == <<"M","y"," ","A","p","p">>
N_MyTest   == <<"M","y","-","T","e","s","t">>
N_my_app   == <<"m","y","-","a","p","p">>
N_my__app  == <<"m","y","-","-","a","p","p">>
N_traefik  == <<"t","r","a","e","f","i","k">>

CreateNames == {N_MyApp, N_MyTest, N_my_app, N_my__app}

ManageNames == {N_my_app, N_traefik, N_MyApp}

Actions == {"start", "stop", "restart", "remove", "logs"}

TailChoices == {n \in {50, DefaultLines} : MinLines <= n /\ n <= MaxLines}

ContainerStates == {S_running, S_exited, S_paused}

MaxContainers == 2

\* The replies of `compose ps`: the lists of at most MaxContainers container states
ContainerLists == UNION {[1..n -> ContainerStates] : n \in 0..MaxContainers}

\* The template directory is provisioned or bare
TemplateSets == {{}, {"pocketbase-env-template", "README-pocketbase.md"}}

\* The answers that can make a difference to a call on directory name: without a
\* compose file no process is started, so there is nothing to answer
HasCompose(f, name) == get_docker_compose_file(Entries(f, name)) # NoFile

Replies(f, name, action) ==
    IF HasCompose(f, name) /\ action \in {"start", "stop", "restart", "remove"}
    THEN ContainerLists ELSE {<<>>}

ExitCodes(f, name) == IF HasCompose(f, name) THEN BOOLEAN ELSE {FALSE}

RmOutcomes(f, name, action) ==
    IF stack_exists(f, name) /\ action = "remove" THEN {"ok", "raise"} ELSE {"ok"}

NoCall ==
    [op |-> "none", name |-> <<>>, action |-> "-", type |-> "-",
     image |-> None, port |-> None, existed |-> FALSE, create_dns |-> FALSE, auto_start |-> FALSE, follow_logs |-> FALSE,
     tail_lines |-> 0, force |-> FALSE, trace |-> <<>>,
     res |-> Response(FALSE, "", "")]

\* The base directory as the stack tools find it
FsInit == [d \in {N_traefik} |-> {"docker-compose.yml", ".env"}]

Init ==
    /\ race = RaceIdle /\ zc = ZcIdle /\ ip = IpIdle /\ logctx = LogIdle /\ rpc = RpcIdle
    /\ life = LifeIdle
    /\ engine = EngineIdle
    /\ fs = FsInit
    /\ call = NoCall
    /\ probe = ProbeIdle /\ cf = CfIdle /\ zone = ZoneIdle /\ hc = HcIdle /\ ops = OpsIdle
    /\ vc = VcIdle /\ ls = LsIdle /\ fn = FnIdle

\* Whether create_stack gets as far as writing: only then do the template
\* directory, the DNS script and the engine have anything to answer
Proceeds(f, name, type, image, port) ==
    StackConfigValid(name, type, image, port) /\ ~stack_exists(f, slugify(name))

\* A client calls the create_stack tool
CreateStack ==
    \E name \in CreateNames, type \in StackTypes \cup {"supabase"},
       create_dns \in BOOLEAN, auto_start \in BOOLEAN :
    \E image \in (IF type = "generic" THEN {None, "nginx:1.25"} ELSE {None}),
       port \in (IF type = "generic" THEN {None, "8080"} ELSE {None}) :
    \E go \in {Proceeds(fs, name, type, image, port)} :
    \E tpl \in (IF go /\ type = "pocketbase" THEN TemplateSets ELSE {{}}),
       dns \in (IF go /\ create_dns THEN {"absent", "fail", "ok"} ELSE {"absent"}),
       upOk \in (IF go /\ auto_start THEN BOOLEAN ELSE {FALSE}),
       ioerr \in (IF go THEN {"none", "env", "compose"} ELSE {"none"}) :
    \E out \in {create_stack(fs, tpl, name, type, image, port,
                             create_dns, auto_start, dns, upOk, ioerr)} :
        /\ UNCHANGED <<probe, cf, zone, hc, ops, vc, ls, fn, engine, race, zc, ip, logctx, rpc, life>>
        /\ fs' = out.fs
        /\ call' = [NoCall EXCEPT !.op = "create_stack", !.name = name, !.type = type,
                                  !.image = image, !.port = port,
                                  !.existed = slugify(name) \in DOMAIN fs,
                                  !.create_dns = create_dns, !.auto_start = auto_start,
                                  !.trace = out.trace, !.res = out.res]

\* A client calls the manage_stack tool
ManageStack ==
    \E stack_name \in ManageNames, action \in Actions \cup {"status"} :
    \E follow_logs \in (IF action = "logs" THEN BOOLEAN ELSE {FALSE}),
       tail_lines \in (IF action = "logs" THEN TailChoices ELSE {DefaultLines}),
       reply \in Replies(fs, stack_name, action), ok \in ExitCodes(fs, stack_name),
       rm \in RmOutcomes(fs, stack_name, action) :
    \E out \in {manage_stack(fs, stack_name, action, follow_logs, tail_lines,
                             reply, ok, rm)} :
        /\ UNCHANGED <<probe, cf, zone, hc, ops, vc, ls, fn, engine, race, zc, ip, logctx, rpc, life>>
        /\ fs' = out.fs
        /\ call' = [NoCall EXCEPT !.op = "manage_stack", !.name = stack_name,
                                  !.existed = stack_name \in DOMAIN fs,
                                  !.action = action, !.follow_logs = follow_logs,
                                  !.tail_lines = tail_lines,
                                  !.trace = out.trace, !.res = out.res]

\* A handler of tools/stack_operations.py is invoked with its own parameters
StackOperation ==
    \E name \in ManageNames, action \in Actions :
    \E force \in (IF action = "remove" THEN BOOLEAN ELSE {FALSE}),
       follow \in (IF action = "logs" THEN BOOLEAN ELSE {FALSE}),
       lines \in (IF action = "logs" THEN TailChoices ELSE {DefaultLines}),
       reply \in Replies(fs, name, action), ok \in ExitCodes(fs, name),
       rm \in RmOutcomes(fs, name, action) :
    \E params \in {StackOperationParams(name, force)} :
    \E out \in {IF action = "start" THEN start_stack(fs, params, reply, ok)
                ELSE IF action = "stop" THEN stop_stack(fs, params, reply, ok)
                ELSE IF action = "restart" THEN restart_stack(fs, params, reply, ok)
                ELSE IF action = "remove" THEN remove_stack(fs, params, reply, ok, rm)
                ELSE get_stack_logs(fs, StackLogsParams(name, lines, follow), ok)} :
        /\ UNCHANGED <<probe, cf, zone, hc, ops, vc, ls, fn, engine, race, zc, ip, logctx, rpc, life>>
        /\ fs' = out.fs
        /\ call' = [NoCall EXCEPT !.op = "handler", !.name = name,
                                  !.existed = name \in DOMAIN fs,
                                  !.action = action, !.follow_logs = follow,
                                  !.tail_lines = lines, !.force = force,
                                  !.trace = out.trace, !.res = out.res]

Next == CreateStack \/ ManageStack \/ StackOperation

Spec == Init /\ [][Next]_vars

----------------------------------------------------------------------------
(* get_stack_status as a function of the container list                     *)

MaxStatusLen == 3

S_Running == <<"R","u","n","n","i","n","g">>
S_Exited  == <<"E","x","i","t","e","d">>
S_empty   == <<>>

\* The State values a container of `compose ps` may carry; S_empty is a container
\* without a State key (container.get("State", ""))
ProbeStates == {S_running, S_up, S_Up, S_Running, S_exited, S_Exited, S_stopped,
                S_created, S_paused, S_empty}

ProbeLists == UNION {[1..n -> ProbeStates] : n \in 0..MaxStatusLen}

InitStatus ==
    /\ race = RaceIdle /\ zc = ZcIdle /\ ip = IpIdle /\ logctx = LogIdle /\ rpc = RpcIdle
    /\ life = LifeIdle
    /\ engine = EngineIdle
    /\ fs = FsInit /\ call = NoCall
    /\ cf = CfIdle /\ zone = ZoneIdle /\ hc = HcIdle /\ ops = OpsIdle
    /\ vc = VcIdle /\ ls = LsIdle /\ fn = FnIdle
    /\ \E containers \in ProbeLists, exists \in BOOLEAN :
          probe = [pc |-> "args", containers |-> containers, exists |-> exists,
                   status |-> "-"]

\* get_stack_status returns
GetStackStatus ==
    /\ probe.pc = "args"
    /\ probe' = [probe EXCEPT !.pc = "returned",
                              !.status = get_stack_status(probe.containers, probe.exists)]
    /\ UNCHANGED <<fs, call, cf, zone, hc, ops, vc, ls, fn, engine, race, zc, ip, logctx, rpc, life>>

NextStatus == GetStackStatus

SpecStatus == InitStatus /\ [][NextStatus]_vars

----------------------------------------------------------------------------
(* server.py: parse_cloudflare_error and cloudflare_api_request             *)

\* One entry of the `errors` list of a provider body: code is "" when absent or
\* falsy; has_message tells whether the entry has a "message" key
ApiError(code, has_message, message) ==
    [code |-> code, has_message |-> has_message, message |-> message]

ErrorPart(e) ==
    LET message == IF e.has_message THEN e.message ELSE "Unknown error"
    IN  IF e.code # "" THEN "[" \o e.code \o "] " \o message ELSE message

RECURSIVE JoinParts(_)
JoinParts(errors) ==
    IF Len(errors) = 1 THEN ErrorPart(errors[1])
    ELSE ErrorPart(errors[1]) \o "; " \o JoinParts(Tail(errors))

\* parse_cloudflare_error on the `errors` list of the body (entries without an
\* error_chain)
parse_cloudflare_error(errors) ==
    IF errors = <<>> THEN "Unknown Cloudflare API error" ELSE JoinParts(errors)

MaxRetries == 3
BaseDelay == 1

\* base_delay * (2 ** attempt)
Backoff(attempt) == BaseDelay * 2^attempt

\* int(text) accepts an optional sign followed by decimal digits
IsIntText(t) ==
    LET body == IF t # <<>> /\ t[1] \in {"-", "+"} THEN Tail(t) ELSE t
    IN  body # <<>> /\ \A i \in DOMAIN body : body[i] \in Digits

DigitValue(c) == CHOOSE n \in 0..9 : ToString(n) = c

RECURSIVE DigitsValue(_)
DigitsValue(t) ==
    IF t = <<>> THEN 0 ELSE 10 * DigitsValue(SubSeq(t, 1, Len(t) - 1)) + DigitValue(t[Len(t)])

IntValue(t) ==
    IF t[1] = "-" THEN 0 - DigitsValue(Tail(t))
    ELSE IF t[1] = "+" THEN DigitsValue(Tail(t))
    ELSE DigitsValue(t)

\* What one HTTP attempt meets: a response (status, Retry-After header, body) or
\* an exception of the requests library
HttpResponse(status, has_retry_after, retry_after, json, success, errors) ==
    [kind |-> "response", status |-> status, has_retry_after |-> has_retry_after,
     retry_after |-> retry_after, json |-> json, success |-> success,
     errors |-> errors, text |-> ""]

Raised(kind, text) ==
    [kind |-> kind, status |-> 0, has_retry_after |-> FALSE, retry_after |-> <<>>,
     json |-> FALSE, success |-> FALSE, errors |-> <<>>, text |-> text]

NoOutcome == Raised("none", "")

CfResult(success, error, status_code) ==
    [success |-> success, error |-> error, status_code |-> status_code]

NoResult == CfResult(FALSE, "-", 0)

\* The log of a call: its requests, with what each met, and its sleeps
RequestEvent(attempt, o) ==
    [ev |-> "request", attempt |-> attempt, kind |-> o.kind, status |-> o.status,
     has_retry_after |-> o.has_retry_after, retry_after |-> o.retry_after, wait |-> 0]

SleepEvent(attempt, ev, wait) ==
    [ev |-> ev, attempt |-> attempt, kind |-> "-", status |-> 0,
     has_retry_after |-> FALSE, retry_after |-> <<>>, wait |-> wait]

SupportedMethods == {"GET", "POST", "PATCH", "DELETE"}

\* Variant: the Retry-After header is not looked at
RateLimitWait_exponential(o, attempt) == Backoff(attempt)

\* The wait after a 429: int(Retry-After) when the header is present, non-empty
\* and parseable, else the exponential value
RateLimitWait(o, attempt) ==
    IF o.has_retry_after /\ o.retry_after # <<>> /\ IsIntText(o.retry_after)
    THEN IntValue(o.retry_after)
    ELSE Backoff(attempt)

\* Variant: one more retry than max_retries
MayRetry_offByOne(attempt) == attempt <= MaxRetries

\* `attempt < max_retries`
MayRetry(attempt) == attempt < MaxRetries

\* `for attempt in range(max_retries + 1)`: the loop moves to the next attempt or
\* is exhausted
NextIteration(c) ==
    IF c.attempt + 1 <= MaxRetries THEN [c EXCEPT !.attempt = @ + 1]
    ELSE [c EXCEPT !.pc = "after"]

\* time.sleep(wait_time) followed by `continue`; a negative wait makes time.sleep
\* raise ValueError, which the `except Exception` clause turns into a break
SleepAndContinue(c, wait) ==
    IF wait < 0
    THEN [c EXCEPT !.pc = "after", !.last_error = "sleep length must be non-negative",
                   !.log = @ \o <<SleepEvent(c.attempt, "sleep_refused", wait)>>]
    ELSE NextIteration([c EXCEPT !.log = @ \o <<SleepEvent(c.attempt, "sleep", wait)>>])

Return(c, result) == [c EXCEPT !.pc = "done", !.result = result]

\* Variant: the last failure's status is not kept in the result
ServerErrorResult_noCode(status) ==
    CfResult(FALSE, "Server error after max retries", 0)

\* The result after the last 5xx
ServerErrorResult(status) ==
    CfResult(FALSE, "Server error " \o ToString(status) \o " after max retries", status)

\* `response.status_code in [200, 201] and response_json.get("success")`
IsApiSuccess(o) == o.status \in {200, 201} /\ o.success

\* The handling of an answered request, lines 326 to 386
HandleResponse(c, o) ==
    IF o.status = 429
    THEN IF MayRetry(c.attempt) THEN SleepAndContinue(c, RateLimitWait(o, c.attempt))
         ELSE Return(c, CfResult(FALSE, "Rate limit exceeded after max retries", 429))
    ELSE IF 500 <= o.status /\ o.status < 600
    THEN IF MayRetry(c.attempt) THEN SleepAndContinue(c, Backoff(c.attempt))
         ELSE Return(c, ServerErrorResult(o.status))
    ELSE IF ~o.json
    THEN Return(c, CfResult(FALSE, "Invalid JSON response from Cloudflare API", o.status))
    ELSE IF IsApiSuccess(o) THEN Return(c, CfResult(TRUE, "", o.status))
    ELSE Return(c, CfResult(FALSE, parse_cloudflare_error(o.errors), o.status))

\* Variant: any exception is retried like a connection error
OnUnexpected_retried(d, o) ==
    LET e == [d EXCEPT !.last_error = o.text]
    IN  IF MayRetry(e.attempt) THEN SleepAndContinue(e, Backoff(e.attempt))
        ELSE NextIteration(e)

\* `except Exception as e`: last_error = str(e), then break
OnUnexpected(d, o) == [d EXCEPT !.pc = "after", !.last_error = o.text]

\* One iteration of the loop of cloudflare_api_request meeting outcome o
Iteration(c, o) ==
    IF c.method \notin SupportedMethods
    THEN Return(c, CfResult(FALSE, "Unsupported HTTP method: " \o c.method, 0))
    ELSE LET d == [c EXCEPT !.log = @ \o <<RequestEvent(c.attempt, o)>>, !.last = o]
         IN  IF o.kind = "response" THEN HandleResponse(d, o)
             ELSE IF o.kind \in {"timeout", "connection"}
             THEN LET e == [d EXCEPT !.last_error =
                                IF o.kind = "timeout" THEN "Request timeout"
                                ELSE "Connection error: " \o o.text]
                  IN  IF MayRetry(e.attempt) THEN SleepAndContinue(e, Backoff(e.attempt))
                      ELSE NextIteration(e)
             ELSE OnUnexpected(d, o)

\* `return (False, {"error": last_error or "Unknown error after all retries"})`
FinalResult(c) ==
    CfResult(FALSE, IF c.last_error # "" THEN c.last_error
                    ELSE "Unknown error after all retries", 0)

T_5   == <<"5">>
T_0   == <<"0">>
T_12  == <<"1","2">>
T_neg == <<"-","1">>
T_abc == <<"a","b","c">>

E_validation == ApiError("1004", TRUE, "DNS Validation Error")
E_blank      == ApiError("", TRUE, "")
E_bare       == ApiError("", FALSE, "")

ErrorLists == {<<>>, <<E_validation>>, <<E_blank>>, <<E_bare>>, <<E_validation, E_bare>>}

RateLimited ==
    {HttpResponse(429, FALSE, <<>>, FALSE, FALSE, <<>>)}
    \cup {HttpResponse(429, TRUE, h, FALSE, FALSE, <<>>) :
            h \in {<<>>, T_5, T_0, T_12, T_neg, T_abc}}

ServerErrors == {HttpResponse(s, FALSE, <<>>, FALSE, FALSE, <<>>) : s \in {500, 503}}

Answers ==
    {HttpResponse(s, FALSE, <<>>, TRUE, TRUE, <<>>) : s \in {200, 201, 400}}
    \cup {HttpResponse(s, FALSE, <<>>, TRUE, FALSE, e) : s \in {200, 400}, e \in ErrorLists}
    \cup {HttpResponse(s, FALSE, <<>>, FALSE, FALSE, <<>>) : s \in {200, 404}}

NetworkErrors ==
    {Raised("timeout", "Read timed out"), Raised("connection", "Connection refused"),
     Raised("exception", "Invalid URL"), Raised("exception", "")}

CfOutcomes == RateLimited \cup ServerErrors \cup Answers \cup NetworkErrors

InitCf ==
    /\ race = RaceIdle /\ zc = ZcIdle /\ ip = IpIdle /\ logctx = LogIdle /\ rpc = RpcIdle
    /\ life = LifeIdle
    /\ engine = EngineIdle
    /\ fs = FsInit /\ call = NoCall
    /\ probe = ProbeIdle /\ zone = ZoneIdle /\ hc = HcIdle /\ ops = OpsIdle
    /\ vc = VcIdle /\ ls = LsIdle /\ fn = FnIdle
    /\ cf = CfIdle

\* cloudflare_api_request is called
CfCall ==
    /\ cf.pc \in {"idle", "done"}
    /\ \E method \in {"GET", "DELETE", "PUT"} :
          cf' = [pc |-> "loop", method |-> method, attempt |-> 0, log |-> <<>>,
                 last |-> NoOutcome, last_error |-> "", result |-> NoResult]
    /\ UNCHANGED <<fs, call, probe, zone, hc, ops, vc, ls, fn, engine, race, zc, ip, logctx, rpc, life>>

\* One pass through the body of the for loop
CfAttempt ==
    /\ cf.pc = "loop"
    /\ \E o \in CfOutcomes : cf' = Iteration(cf, o)
    /\ UNCHANGED <<fs, call, probe, zone, hc, ops, vc, ls, fn, engine, race, zc, ip, logctx, rpc, life>>

\* The return after the loop
CfReturn ==
    /\ cf.pc = "after"
    /\ cf' = Return(cf, FinalResult(cf))
    /\ UNCHANGED <<fs, call, probe, zone, hc, ops, vc, ls, fn, engine, race, zc, ip, logctx, rpc, life>>

NextCf == CfCall \/ CfAttempt \/ CfReturn

SpecCf == InitCf /\ [][NextCf]_vars

FairSpecCf == SpecCf /\ WF_vars(CfAttempt) /\ WF_vars(CfReturn)

----------------------------------------------------------------------------
(* server.py: update_dns_proxy and delete_dns_record                        *)

MaxRecords == 3

RecordTypes == {"A", "AAAA", "CNAME", "MX"}

\* The types the proxy update accepts
ProxyableTypes == {"A", "AAAA", "CNAME"}

DnsRecord(id, type, proxied) == [id |-> id, type |-> type, proxied |-> proxied]

\* The record lists the provider holds for the name at the start: ids in lookup
\* order, no record proxied yet
RecordLists ==
    UNION {{[i \in 1..n |-> DnsRecord(i, types[i], FALSE)] :
                types \in [1..n -> RecordTypes]} :
           n \in 0..MaxRecords}

\* One call of cloudflare_api_request made by a DNS tool: what is asked, of which
\* record (0: none), with which payload, and whether the client reports success
ApiCall(method, what, id, proxied, ok) ==
    [method |-> method, what |-> what, id |-> id, proxied |-> proxied, ok |-> ok]

\* get_cloudflare_zone_id: the cached id, or a GET that succeeds or fails
ZoneLookup(zoneid) ==
    IF zoneid = "cached" THEN <<>>
    ELSE <<ApiCall("GET", "zones", 0, FALSE, zoneid = "ok")>>

DnsResponse(success, error) ==
    [success |-> success, error |-> error, records_deleted |-> 0,
     has_failed_records |-> FALSE, failed_records |-> <<>>,
     has_details |-> FALSE, proxied |-> FALSE, record_id |-> 0]

DnsOutcome(requests, res, records) ==
    [requests |-> requests, res |-> res, records |-> records]

\* The steps common to both tools up to the record lookup: the API token, the
\* zone id, the GET of the records of the name
Preamble(records, token, zoneid, lookupOk) ==
    LET lookup == <<ApiCall("GET", "dns_records", 0, FALSE, lookupOk)>>
    IN  IF ~token
        THEN DnsOutcome(<<>>, DnsResponse(FALSE, "Cloudflare API token not configured"),
                        records)
        ELSE IF zoneid = "fail"
        THEN DnsOutcome(ZoneLookup(zoneid), DnsResponse(FALSE, "Failed to get zone ID"),
                        records)
        ELSE IF ~lookupOk
        THEN DnsOutcome(ZoneLookup(zoneid) \o lookup,
                        DnsResponse(FALSE, "Failed to fetch DNS records"), records)
        ELSE IF records = <<>>
        THEN DnsOutcome(ZoneLookup(zoneid) \o lookup,
                        DnsResponse(FALSE, "No DNS record found"), records)
        ELSE DnsOutcome(ZoneLookup(zoneid) \o lookup, DnsResponse(TRUE, ""), records)

\* Variant: the last proxyable record is taken
TargetIndex_last(records) ==
    CHOOSE i \in DOMAIN records :
        /\ records[i].type \in ProxyableTypes
        /\ \A j \in DOMAIN records : j > i => records[j].type \notin ProxyableTypes

\* `for record in records: if record["type"] in [...]: target_record = record; break`
TargetIndex(records) ==
    CHOOSE i \in DOMAIN records :
        /\ records[i].type \in ProxyableTypes
        /\ \A j \in 1..(i - 1) : records[j].type \notin ProxyableTypes

update_dns_proxy(records, enable, token, zoneid, lookupOk, patchOk) ==
    LET pre == Preamble(records, token, zoneid, lookupOk)
    IN  IF ~pre.res.success THEN pre
        ELSE IF \A i \in DOMAIN records : records[i].type \notin ProxyableTypes
        THEN DnsOutcome(pre.requests, DnsResponse(FALSE, "No proxyable record found"),
                        records)
        ELSE LET t == TargetIndex(records)
                 patch == ApiCall("PATCH", "dns_records", records[t].id, enable, patchOk)
             IN  IF patchOk
                 THEN DnsOutcome(pre.requests \o <<patch>>,
                                 [DnsResponse(TRUE, "") EXCEPT !.has_details = TRUE,
                                        !.proxied = enable, !.record_id = records[t].id],
                                 [records EXCEPT ![t].proxied = enable])
                 ELSE DnsOutcome(pre.requests \o <<patch>>,
                                 DnsResponse(FALSE, "Unknown error"), records)

\* The records left when those at the positions in gone are deleted
Remaining(records, gone) ==
    SelectSeq(records, LAMBDA r : \A i \in gone : records[i].id # r.id)

\* Variant: the loop stops at the first deletion the provider rejects
DeleteUpTo_stopAtFailure(records, delOk) ==
    IF \E i \in DOMAIN records : ~delOk[i]
    THEN CHOOSE i \in DOMAIN records : ~delOk[i] /\ \A j \in 1..(i - 1) : delOk[j]
    ELSE Len(records)

\* `for record in records`: the loop visits every record
DeleteUpTo(records, delOk) == Len(records)

delete_dns_record(records, token, zoneid, lookupOk, delOk) ==
    LET pre == Preamble(records, token, zoneid, lookupOk)
        n == DeleteUpTo(records, delOk)
        deletes == [i \in 1..n |-> ApiCall("DELETE", "dns_records", records[i].id,
                                           FALSE, delOk[i])]
        done == {i \in 1..n : delOk[i]}
        failed == SelectSeq(deletes, LAMBDA c : ~c.ok)
        failed_records == [i \in DOMAIN failed |-> failed[i].id]
        deleted_count == Cardinality(done)
    IN  IF ~pre.res.success THEN pre
        ELSE IF deleted_count > 0
        THEN DnsOutcome(pre.requests \o deletes,
                        [DnsResponse(TRUE, "") EXCEPT !.has_details = TRUE,
                               !.records_deleted = deleted_count,
                               !.has_failed_records = (failed_records # <<>>),
                               !.failed_records = failed_records],
                        Remaining(records, done))
        ELSE DnsOutcome(pre.requests \o deletes,
                        DnsResponse(FALSE, "Failed to delete any DNS records"), records)

ZoneIds == {"cached", "ok", "fail"}

InitDns ==
    /\ race = RaceIdle /\ zc = ZcIdle /\ ip = IpIdle /\ logctx = LogIdle /\ rpc = RpcIdle
    /\ life = LifeIdle
    /\ engine = EngineIdle
    /\ fs = FsInit /\ call = NoCall
    /\ probe = ProbeIdle /\ cf = CfIdle /\ hc = HcIdle /\ ops = OpsIdle
    /\ vc = VcIdle /\ ls = LsIdle /\ fn = FnIdle
    /\ \E records \in RecordLists :
          zone = [pc |-> "ready", records |-> records, before |-> records, op |-> "none",
                  enable |-> FALSE, requests |-> <<>>, res |-> DnsResponse(FALSE, "-")]

\* Whether the tool gets as far as the request only the provider's answer decides
Reaches(records, token, zoneid, lookupOk) ==
    Preamble(records, token, zoneid, lookupOk).res.success

\* A client calls the update_dns_proxy tool
UpdateDnsProxy ==
    \E enable \in BOOLEAN, token \in BOOLEAN :
    \E zoneid \in (IF token THEN ZoneIds ELSE {"cached"}) :
    \E lookupOk \in (IF token /\ zoneid # "fail" THEN BOOLEAN ELSE {FALSE}) :
    \E patchOk \in (IF Reaches(zone.records, token, zoneid, lookupOk)
                    THEN BOOLEAN ELSE {FALSE}) :
    \E out \in {update_dns_proxy(zone.records, enable, token, zoneid, lookupOk, patchOk)} :
        /\ zone' = [pc |-> "ready", records |-> out.records, before |-> zone.records,
                    op |-> "update_dns_proxy", enable |-> enable,
                    requests |-> out.requests, res |-> out.res]
        /\ UNCHANGED <<fs, call, probe, cf, hc, ops, vc, ls, fn, engine, race, zc, ip, logctx, rpc, life>>

\* A client calls the delete_dns_record tool
DeleteDnsRecord ==
    \E token \in BOOLEAN :
    \E zoneid \in (IF token THEN ZoneIds ELSE {"cached"}) :
    \E lookupOk \in (IF token /\ zoneid # "fail" THEN BOOLEAN ELSE {FALSE}) :
    \E delOk \in (IF Reaches(zone.records, token, zoneid, lookupOk)
                  THEN [DOMAIN zone.records -> BOOLEAN]
                  ELSE {[i \in DOMAIN zone.records |-> FALSE]}) :
    \E out \in {delete_dns_record(zone.records, token, zoneid, lookupOk, delOk)} :
        /\ zone' = [pc |-> "ready", records |-> out.records, before |-> zone.records,
                    op |-> "delete_dns_record", enable |-> FALSE,
                    requests |-> out.requests, res |-> out.res]
        /\ UNCHANGED <<fs, call, probe, cf, hc, ops, vc, ls, fn, engine, race, zc, ip, logctx, rpc, life>>

NextDns == UpdateDnsProxy \/ DeleteDnsRecord

SpecDns == InitDns /\ [][NextDns]_vars

----------------------------------------------------------------------------
(* utils/health.py: HealthChecker, and the health_check tool of server.py   *)

\* HealthChecker.checks, in order
Checks == <<"docker", "filesystem", "dns", "network", "traefik">>

CheckNames == Range(Checks)

\* Variant: every check is critical
IsCritical_all(name) == TRUE

\* HealthCheck.critical as the constructors set it
IsCritical(name) == name \in {"docker", "filesystem"}

TimeoutSeconds == 10

\* Variant: the wait for a check has no time limit
WaitForExpires_never(clock) == FALSE

\* asyncio.wait_for(check.check(), timeout=10.0) gives up at the time limit
WaitForExpires(clock) == clock = TimeoutSeconds

CheckResult(kind, healthy, message) ==
    [kind |-> kind, healthy |-> healthy, message |-> message]

Pending == CheckResult("pending", FALSE, "")

\* What the body of a check comes to before the time limit: it succeeds, it
\* reports a failure, or it raises inside its own try block, which every check
\* turns into (False, text)
CheckReturns(outcome) ==
    IF outcome = "ok" THEN CheckResult("tuple", TRUE, "is accessible")
    ELSE IF outcome = "fail" THEN CheckResult("tuple", FALSE, "returned status")
    ELSE CheckResult("tuple", FALSE, "Cannot connect")

\* _run_check on asyncio.TimeoutError
TimedOut == CheckResult("tuple", FALSE, "Health check timed out")

\* One entry of `checks` in the report
Entry(name, r) ==
    IF r.kind = "exception"
    THEN [healthy |-> FALSE, message |-> "Check failed: " \o r.message,
          critical |-> IsCritical(name)]
    ELSE [healthy |-> r.healthy, message |-> r.message, critical |-> IsCritical(name)]

\* The processing loop of check_all over zip(self.checks, check_results)
Report(results) ==
    LET checks == [name \in CheckNames |-> Entry(name, results[name])]
    IN  [healthy |-> \A name \in CheckNames : IsCritical(name) => checks[name].healthy,
         all_healthy |-> \A name \in CheckNames : checks[name].healthy,
         checks |-> checks]

\* The status the health_check tool reports
ToolStatus(report) == IF report.healthy THEN "healthy" ELSE "unhealthy"

NoReport == [healthy |-> FALSE, all_healthy |-> FALSE, checks |-> <<>>]

InitHealth ==
    /\ race = RaceIdle /\ zc = ZcIdle /\ ip = IpIdle /\ logctx = LogIdle /\ rpc = RpcIdle
    /\ life = LifeIdle
    /\ engine = EngineIdle
    /\ fs = FsInit /\ call = NoCall
    /\ probe = ProbeIdle /\ cf = CfIdle /\ zone = ZoneIdle /\ ops = OpsIdle
    /\ vc = VcIdle /\ ls = LsIdle /\ fn = FnIdle
    /\ hc = [pc |-> "ready", clock |-> 0, outcome |-> [name \in CheckNames |-> "-"],
             results |-> [name \in CheckNames |-> Pending],
             report |-> NoReport, status |-> "-"]

\* health_check is called: check_all creates one task per check and gathers them
CheckAll ==
    /\ hc.pc \in {"ready", "done"}
    /\ hc' = [pc |-> "gather", clock |-> 0, outcome |-> [name \in CheckNames |-> "-"],
              results |-> [name \in CheckNames |-> Pending],
              report |-> NoReport, status |-> "-"]
    /\ UNCHANGED <<fs, call, probe, cf, zone, ops, vc, ls, fn, engine, race, zc, ip, logctx, rpc, life>>

\* A check finishes before the time limit
CheckFinishes ==
    /\ hc.pc = "gather" /\ hc.clock < TimeoutSeconds
    /\ \E name \in CheckNames, outcome \in {"ok", "fail", "raise"} :
          /\ hc.results[name] = Pending
          /\ hc' = [hc EXCEPT !.outcome[name] = outcome,
                              !.results[name] = CheckReturns(outcome)]
    /\ UNCHANGED <<fs, call, probe, cf, zone, ops, vc, ls, fn, engine, race, zc, ip, logctx, rpc, life>>

\* The time limit is reached while some check is still running
TimePasses ==
    /\ hc.pc = "gather" /\ hc.clock < TimeoutSeconds
    /\ \E name \in CheckNames : hc.results[name] = Pending
    /\ hc' = [hc EXCEPT !.clock = TimeoutSeconds]
    /\ UNCHANGED <<fs, call, probe, cf, zone, ops, vc, ls, fn, engine, race, zc, ip, logctx, rpc, life>>

\* wait_for cancels a check that is still running and _run_check reports it
CheckTimesOut ==
    /\ hc.pc = "gather" /\ WaitForExpires(hc.clock)
    /\ \E name \in CheckNames :
          /\ hc.results[name] = Pending
          /\ hc' = [hc EXCEPT !.outcome[name] = "hang", !.results[name] = TimedOut]
    /\ UNCHANGED <<fs, call, probe, cf, zone, ops, vc, ls, fn, engine, race, zc, ip, logctx, rpc, life>>

\* gather returns once every task has returned; check_all builds the report and
\* health_check its status
Gathered ==
    /\ hc.pc = "gather"
    /\ \A name \in CheckNames : hc.results[name] # Pending
    /\ hc' = [hc EXCEPT !.pc = "done", !.report = Report(hc.results),
                        !.status = ToolStatus(Report(hc.results))]
    /\ UNCHANGED <<fs, call, probe, cf, zone, ops, vc, ls, fn, engine, race, zc, ip, logctx, rpc, life>>

NextHealth == CheckAll \/ CheckFinishes \/ TimePasses \/ CheckTimesOut \/ Gathered

SpecHealth == InitHealth /\ [][NextHealth]_vars

\* The event loop runs whatever is ready and timers fire
FairSpecHealth ==
    SpecHealth /\ WF_vars(TimePasses) /\ WF_vars(CheckTimesOut) /\ WF_vars(Gathered)

----------------------------------------------------------------------------
(* server.py: ServerState.operation_count and the registered tools          *)

MaxOps == 5

\* The functions registered with @mcp.tool()
Tools ==
    {"create_stack", "list_stacks", "manage_stack", "create_dns_record",
     "list_dns_records", "update_dns_proxy", "delete_dns_record",
     "validate_stack_config", "health_check", "server_info"}

\* The tools whose body starts with server_state.increment_operations()
CallsIncrement(tool) ==
    tool \in {"create_stack", "list_stacks", "manage_stack", "create_dns_record",
              "list_dns_records", "update_dns_proxy", "delete_dns_record",
              "validate_stack_config", "health_check"}

\* ServerState.increment_operations
increment_operations(count) == count + 1

\* The tool functions the HTTP endpoints /health and /info call
HttpEndpoints == {"health_check", "server_info"}

InitOps ==
    /\ race = RaceIdle /\ zc = ZcIdle /\ ip = IpIdle /\ logctx = LogIdle /\ rpc = RpcIdle
    /\ life = LifeIdle
    /\ engine = EngineIdle
    /\ fs = FsInit /\ call = NoCall
    /\ probe = ProbeIdle /\ cf = CfIdle /\ zone = ZoneIdle /\ hc = HcIdle
    /\ vc = VcIdle /\ ls = LsIdle /\ fn = FnIdle
    /\ ops = [pc |-> "ready", operation_count |-> 0, invocations |-> 0,
              before |-> 0, tool |-> "-", via |-> "-", outcome |-> "-"]

\* The state once the first statement of a tool function has run
Enter(tool, via) ==
    [pc |-> "working",
     operation_count |-> IF CallsIncrement(tool)
                         THEN increment_operations(ops.operation_count)
                         ELSE ops.operation_count,
     invocations |-> ops.invocations + 1,
     before |-> ops.operation_count,
     tool |-> tool, via |-> via, outcome |-> "-"]

\* A client calls a tool
InvokeTool ==
    /\ ops.pc = "ready" /\ ops.invocations < MaxOps
    /\ \E tool \in Tools : ops' = Enter(tool, "mcp")
    /\ UNCHANGED <<fs, call, probe, cf, zone, hc, vc, ls, fn, engine, race, zc, ip, logctx, rpc, life>>

\* GET /health or GET /info
HttpRequest ==
    /\ ops.pc = "ready" /\ ops.invocations < MaxOps
    /\ \E tool \in HttpEndpoints : ops' = Enter(tool, "http")
    /\ UNCHANGED <<fs, call, probe, cf, zone, hc, vc, ls, fn, engine, race, zc, ip, logctx, rpc, life>>

\* The rest of the tool: it returns a result or an error, the counter untouched
ToolReturns ==
    /\ ops.pc = "working"
    /\ \E outcome \in {"success", "error"} :
          ops' = [ops EXCEPT !.pc = "ready", !.outcome = outcome]
    /\ UNCHANGED <<fs, call, probe, cf, zone, hc, vc, ls, fn, engine, race, zc, ip, logctx, rpc, life>>

NextOps == InvokeTool \/ HttpRequest \/ ToolReturns

SpecOps == InitOps /\ [][NextOps]_vars

----------------------------------------------------------------------------
(* models/stack_models.py: ValidationResult                                 *)

\* ValidationError(field, message, suggestion); `arg` is the value a message
\* interpolates, `hint` the name a suggestion interpolates
ValidationError(field, message, arg, suggestion, hint) ==
    [field |-> field, message |-> message, arg |-> arg,
     suggestion |-> suggestion, hint |-> hint]

\* ValidationResult(valid=True)
NewValidationResult ==
    [valid |-> TRUE, errors |-> <<>>, warnings |-> <<>>,
     port_conflicts |-> <<>>, domain_conflicts |-> <<>>]

\* ValidationResult.has_errors
has_errors(result) == Len(result.errors) > 0

\* Variant: an error is listed and the result is still valid
add_error_keepsValid(result, e) == [result EXCEPT !.errors = Append(@, e)]

\* ValidationResult.add_error
add_error(result, e) == [result EXCEPT !.errors = Append(@, e), !.valid = FALSE]

\* ValidationResult.add_warning
add_warning(result, message) == [result EXCEPT !.warnings = Append(@, message)]

----------------------------------------------------------------------------
(* server.py: validate_stack_config                                         *)

IsLetter(c) == c \in Range(LowerLetters) \cup Range(UpperLetters)

IsDomainChar(c) == IsLetter(c) \/ c \in Digits \/ c = "-"

\* ([a-zA-Z0-9-]+\.)*[a-zA-Z0-9-]+ : labels of domain characters joined by dots
IsLabels(s) ==
    /\ s # <<>>
    /\ \A i \in DOMAIN s : IsDomainChar(s[i]) \/ s[i] = "."
    /\ s[1] # "." /\ s[Len(s)] # "."
    /\ \A i \in 1..(Len(s) - 1) : ~(s[i] = "." /\ s[i + 1] = ".")

\* the same pattern anchored at the very end of the text
MatchesToEnd(d) ==
    \E k \in DOMAIN d :
        /\ d[k] = "."
        /\ IsLabels(SubSeq(d, 1, k - 1))
        /\ Len(d) - k >= 2
        /\ \A i \in (k + 1)..Len(d) : IsLetter(d[i])

\* Variant: every text is taken for a domain
MatchesDomainPattern_any(d) == TRUE

\* re.match(r'^([a-zA-Z0-9-]+\.)*[a-zA-Z0-9-]+\.[a-zA-Z]{2,}$', domain): `$` also
\* matches just before one final newline
MatchesDomainPattern(d) ==
    \/ MatchesToEnd(d)
    \/ /\ d # <<>> /\ d[Len(d)] = "\n"
       /\ MatchesToEnd(SubSeq(d, 1, Len(d) - 1))

\* A port as the caller gives it: absent, an integer, or a text
Port(kind, n, text) == [kind |-> kind, n |-> n, text |-> text]

NoPort == Port("none", 0, <<>>)

\* config.get("port") is truthy
HasPort(port) ==
    \/ port.kind = "int" /\ port.n # 0
    \/ port.kind = "str" /\ port.text # <<>>

\* int(config["port"]) does not raise
IsIntPort(port) == port.kind = "int" \/ (port.kind = "str" /\ IsIntText(port.text))

\* int(config["port"])
IntPort(port) == IF port.kind = "int" THEN port.n ELSE IntValue(port.text)

\* str(port) inside a message
PortText(port) == IF port.kind = "str" /\ ~IsIntText(port.text) THEN port.text
                  ELSE <<ToString(IntPort(port))>>

Config(name, type, image, port, domain) ==
    [name |-> name, type |-> type, image |-> image, port |-> port, domain |-> domain]

T_generic == <<"g","e","n","e","r","i","c">>
T_pocketbase == <<"p","o","c","k","e","t","b","a","s","e">>

\* 1. and 2.: the name checks
NameErrors(name) ==
    IF name = <<>>
    THEN <<ValidationError("name", "Stack name is required", <<>>, "None", <<>>)>>
    ELSE (IF Len(name) < MinNameLen
          THEN <<ValidationError("name", "Stack name must be at least 3 characters long",
                                 <<>>, "None", <<>>)>>
          ELSE IF Len(name) > MaxNameLen
          THEN <<ValidationError("name", "Stack name must be less than 50 characters long",
                                 <<>>, "None", <<>>)>>
          ELSE <<>>)
         \o (IF ~MatchesNamePattern(name)
             THEN <<ValidationError("name",
                       "Stack name must contain only lowercase letters, numbers, and hyphens",
                       <<>>, "Try: ", slugify(name))>>
             ELSE <<>>)
         \o (IF name[1] = "-" \/ name[Len(name)] = "-"
             THEN <<ValidationError("name", "Stack name cannot start or end with a hyphen",
                                    <<>>, "None", <<>>)>>
             ELSE <<>>)

\* 3.: what the stack type requires
TypeErrors(stack_type, image, port) ==
    IF stack_type = T_generic
    THEN (IF image = <<>>
          THEN <<ValidationError("image", "Docker image is required for generic stacks",
                                 <<>>, "None", <<>>)>>
          ELSE <<>>)
         \o (IF ~HasPort(port)
             THEN <<ValidationError("port", "Container port is required for generic stacks",
                                    <<>>, "None", <<>>)>>
             ELSE <<>>)
    ELSE <<>>

TypeWarnings(stack_type) ==
    IF stack_type \in {T_generic, T_pocketbase} THEN <<>>
    ELSE <<"Unknown stack type, treating as generic">>

\* 4.: the port number
PortErrors(port) ==
    IF ~HasPort(port) THEN <<>>
    ELSE IF ~IsIntPort(port)
    THEN <<ValidationError("port", "Port must be a valid integer", PortText(port), "None", <<>>)>>
    ELSE IF IntPort(port) < 1 \/ IntPort(port) > 65535
    THEN <<ValidationError("port", "Port number must be between 1 and 65535",
                           PortText(port), "None", <<>>)>>
    ELSE <<>>

\* 5.: the domain format
DomainErrors(domain) ==
    IF domain # <<>> /\ ~MatchesDomainPattern(domain)
    THEN <<ValidationError("domain", "Invalid domain format", domain,
                           "Use format like: example.com or sub.example.com", <<>>)>>
    ELSE <<>>

\* Variant: conflicts are looked for only when nothing at all was wrong
ChecksConflicts_noErrors(check_conflicts, name, errors) ==
    check_conflicts /\ name # <<>> /\ errors = <<>>

\* 6.: check_conflicts and config.get("name") and no error of field "name"
ChecksConflicts(check_conflicts, name, errors) ==
    /\ check_conflicts /\ name # <<>>
    /\ ~\E i \in DOMAIN errors : errors[i].field = "name"

ExistsErrors(dirs, name) ==
    IF stack_exists(dirs, name)
    THEN <<ValidationError("name", "Stack already exists", name,
              "Choose a different name or remove the existing stack first", <<>>)>>
    ELSE <<>>

\* the domain branch of 6.: a given domain is appended as it is
DomainConflicts(domain) == IF domain # <<>> THEN <<domain>> ELSE <<>>

SystemPorts == {80, 443, 22}

\* the port branch of 6.
PortConflicts(stack_type, port) ==
    IF stack_type = T_generic /\ HasPort(port) /\ IsIntPort(port)
       /\ IntPort(port) \in SystemPorts
    THEN <<IntPort(port)>> ELSE <<>>

CommonPorts == {80, 443, 22, 21, 25, 3306, 5432, 6379, 27017}

\* the best-practice warnings of a configuration found valid
PracticeWarnings(image, port) ==
    (IF HasPort(port) /\ IsIntPort(port) /\ IntPort(port) < 1024
     THEN <<"Port is a privileged port">> ELSE <<>>)
    \o (IF HasPort(port) /\ IsIntPort(port) /\ IntPort(port) \in CommonPorts
        THEN <<"Port is commonly used by system services. Make sure it's not already in use">>
        ELSE <<>>)
    \o (IF image # <<>> /\ ":" \notin Range(image)
        THEN <<"Docker image doesn't specify a tag">> ELSE <<>>)

\* errors.append({...}); valid = False, once for each error found
RECURSIVE Fail(_, _)
Fail(result, errors) ==
    IF errors = <<>> THEN result ELSE Fail(add_error(result, Head(errors)), Tail(errors))

\* warnings.append(...)
RECURSIVE Warn(_, _)
Warn(result, warnings) ==
    IF warnings = <<>> THEN result ELSE Warn(add_warning(result, Head(warnings)), Tail(warnings))

\* validate_stack_config(config, check_conflicts) over the stack directories `dirs`.
\* With text-valued name, type, image and domain no statement of the try block
\* raises, so the except branch is not taken.
validate_stack_config(dirs, config, check_conflicts) ==
    LET stack_type == Lower(config.type)
        checked == Warn(Fail(NewValidationResult,
                             NameErrors(config.name)
                             \o TypeErrors(stack_type, config.image, config.port)
                             \o PortErrors(config.port)
                             \o DomainErrors(config.domain)),
                        TypeWarnings(stack_type))
        conflicts == ChecksConflicts(check_conflicts, config.name, checked.errors)
        port_conflicts == IF conflicts THEN PortConflicts(stack_type, config.port) ELSE <<>>
        compared == Warn(IF conflicts THEN Fail(checked, ExistsErrors(dirs, config.name))
                                      ELSE checked,
                         IF port_conflicts # <<>>
                         THEN <<"Port is commonly used by system services">> ELSE <<>>)
        advised == IF compared.valid
                   THEN Warn(compared, PracticeWarnings(config.image, config.port))
                   ELSE compared
    IN  [advised EXCEPT !.port_conflicts = port_conflicts,
                        !.domain_conflicts = IF conflicts THEN DomainConflicts(config.domain)
                                             ELSE <<>>]

\* An existing stack as the conflict checks would see it: the APP_DOMAIN and
\* APP_PORT of its .env and whether its containers run
StackDir(domain, port, running) == [domain |-> domain, port |-> port, running |-> running]

N_web == <<"w","e","b">>
N_api == <<"a","p","i">>
N_db == <<"d","b","1">>
D_web == <<"w",".","i","o">>
D_free == <<"a",".","i","o">>
D_bad == <<"n","o","t"," ","a"," ","d","o","m","a","i","n">>
D_api_default == <<"a","p","i",".","r","b","n","k",".","u","k">>

\* The stacks of the base directory during the calls
VcDirs ==
    (N_web :> StackDir(D_web, 8080, TRUE)) @@ (N_db :> StackDir(<<"d",".","i","o">>, 5432, FALSE))

VcNames ==
    {<<>>, <<"A","B">>, <<"a","b">>, <<"M","y","_","S","t","a","c","k">>, N_web, N_api,
     <<"-","a","b">>, [i \in 1..(MaxNameLen + 1) |-> "a"]}

VcTypes == {T_generic, T_pocketbase, <<"G","e","n","e","r","i","c">>, <<"w","p">>}

VcImages == {<<>>, <<"n","g","x">>, <<"n","g",":","1">>}

VcPorts ==
    {NoPort, Port("int", 0, <<>>), Port("int", 80, <<>>), Port("int", 8080, <<>>),
     Port("int", 70000, <<>>), Port("int", 0 - 1, <<>>),
     Port("str", 0, <<"8","0","8","0">>), Port("str", 0, <<"a","b","c">>)}

VcDomains == {<<>>, D_web, D_free, D_bad}

MaxEntries == 3

VrErrors ==
    {ValidationError("name", "Stack name is required", <<>>, "None", <<>>),
     ValidationError("port", "Port must be a valid integer", <<"a","b","c">>, "None", <<>>),
     ValidationError("domain", "Invalid domain format", D_bad,
                     "Use format like: example.com or sub.example.com", <<>>)}

VrWarnings == {"Unknown stack type, treating as generic", "Port is a privileged port"}

NoConfig == Config(<<>>, <<>>, <<>>, NoPort, <<>>)

VcReady ==
    [pc |-> "ready", dirs |-> VcDirs, config |-> NoConfig, check_conflicts |-> FALSE,
     res |-> NewValidationResult, vr |-> NewValidationResult, calls |-> 0]

InitValidate ==
    /\ race = RaceIdle /\ zc = ZcIdle /\ ip = IpIdle /\ logctx = LogIdle /\ rpc = RpcIdle
    /\ life = LifeIdle
    /\ engine = EngineIdle
    /\ fs = FsInit /\ call = NoCall
    /\ probe = ProbeIdle /\ cf = CfIdle /\ zone = ZoneIdle /\ hc = HcIdle /\ ops = OpsIdle
    /\ ls = LsIdle /\ fn = FnIdle
    /\ vc = VcReady

\* A client calls validate_stack_config
ValidateStackConfig ==
    /\ vc.pc = "ready"
    /\ \E name \in VcNames, type \in VcTypes, image \in VcImages, port \in VcPorts,
          domain \in VcDomains, check_conflicts \in BOOLEAN :
          LET config == Config(name, type, image, port, domain)
          IN  vc' = [vc EXCEPT !.pc = "called", !.config = config,
                               !.check_conflicts = check_conflicts,
                               !.res = validate_stack_config(vc.dirs, config, check_conflicts)]
    /\ UNCHANGED <<fs, call, probe, cf, zone, hc, ops, ls, fn, engine, race, zc, ip, logctx, rpc, life>>

\* The response has been delivered; the server waits for the next request
ValidateReturns ==
    /\ vc.pc = "called"
    /\ vc' = VcReady
    /\ UNCHANGED <<fs, call, probe, cf, zone, hc, ops, ls, fn, engine, race, zc, ip, logctx, rpc, life>>

\* ValidationResult(valid=True)
CreateResult ==
    /\ vc.pc \in {"ready", "object"}
    /\ vc' = [VcReady EXCEPT !.pc = "object"]
    /\ UNCHANGED <<fs, call, probe, cf, zone, hc, ops, ls, fn, engine, race, zc, ip, logctx, rpc, life>>

\* result.add_error(...)
AddError ==
    /\ vc.pc = "object" /\ vc.calls < MaxEntries
    /\ \E e \in VrErrors : vc' = [vc EXCEPT !.vr = add_error(@, e), !.calls = @ + 1]
    /\ UNCHANGED <<fs, call, probe, cf, zone, hc, ops, ls, fn, engine, race, zc, ip, logctx, rpc, life>>

\* result.add_warning(...)
AddWarning ==
    /\ vc.pc = "object" /\ vc.calls < MaxEntries
    /\ \E w \in VrWarnings : vc' = [vc EXCEPT !.vr = add_warning(@, w), !.calls = @ + 1]
    /\ UNCHANGED <<fs, call, probe, cf, zone, hc, ops, ls, fn, engine, race, zc, ip, logctx, rpc, life>>

NextValidate ==
    ValidateStackConfig \/ ValidateReturns \/ CreateResult \/ AddError \/ AddWarning

SpecValidate == InitValidate /\ [][NextValidate]_vars

----------------------------------------------------------------------------
(* utils/stack_utils.py: list_stacks; server.py: the list_stacks tool       *)

IndexIn(seq, c) == CHOOSE i \in DOMAIN seq : seq[i] = c

\* ord(c) for the characters that occur in names and statuses
Code(c) ==
    IF c \in Digits THEN 48 + DigitValue(c)
    ELSE IF c \in Range(UpperLetters) THEN 64 + IndexIn(UpperLetters, c)
    ELSE IF c \in Range(LowerLetters) THEN 96 + IndexIn(LowerLetters, c)
    ELSE IF c = " " THEN 32
    ELSE IF c = "-" THEN 45
    ELSE IF c = "." THEN 46
    ELSE 95

\* a < b for two str values: by code point, a proper prefix first
RECURSIVE StrLess(_, _)
StrLess(a, b) ==
    IF b = <<>> THEN FALSE
    ELSE IF a = <<>> THEN TRUE
    ELSE IF Head(a) # Head(b) THEN Code(Head(a)) < Code(Head(b))
    ELSE StrLess(Tail(a), Tail(b))

\* sorted(names)
RECURSIVE Sorted(_)
Sorted(names) ==
    IF names = {} THEN <<>>
    ELSE LET least == CHOOSE n \in names : \A o \in names \ {n} : StrLess(n, o)
         IN  <<least>> \o Sorted(names \ {least})

\* An entry of the base directory: a directory with its file names, or a file;
\* for a stack, the states of its containers and the directory's st_ctime
Item(is_dir, entries, containers, ctime) ==
    [is_dir |-> is_dir, entries |-> entries, containers |-> containers, ctime |-> ctime]

\* Variant: system stacks are listed in both modes
SkipsSystem_never(include_system, item) == FALSE

\* not include_system and item in SYSTEM_STACKS
SkipsSystem(include_system, item) == ~include_system /\ item \in SYSTEM_STACKS

\* stack_utils.list_stacks over the base directory `base`
list_stacks(base, include_system) ==
    Sorted({item \in DOMAIN base :
               /\ base[item].is_dir
               /\ item[1] # "."
               /\ ~SkipsSystem(include_system, item)
               /\ get_docker_compose_file(base[item].entries) # NoFile})

\* filter_lower in s.lower()
Contains(sub, s) ==
    \E i \in 1..(Len(s) - Len(sub) + 1) : SubSeq(s, i, i + Len(sub) - 1) = sub

\* The characters of a status text
StatusChars(status) ==
    IF status = "running" THEN S_running
    ELSE IF status = "stopped" THEN S_stopped
    ELSE IF status = "created" THEN S_created
    ELSE IF status = "error" THEN <<"e","r","r","o","r">>
    ELSE <<>>

\* The info of one stack in the tool's result: name and path, and with
\* include_status the status and the fields of get_stack_info, of which the
\* creation time is stored under "created_at"
StackInfo(base, stack_name, include_status) ==
    IF include_status
    THEN [name |-> stack_name, path |-> get_stack_path(stack_name),
          status |-> get_stack_status(base[stack_name].containers, TRUE),
          created_at |-> base[stack_name].ctime]
    ELSE [name |-> stack_name, path |-> get_stack_path(stack_name)]

\* The sort key of the tool for one info: x["name"], x.get("created", "") or
\* x.get("status", "")
SortKey(info, sort_by) ==
    IF sort_by = "name" THEN info.name
    ELSE IF sort_by = "created"
    THEN (IF "created" \in DOMAIN info THEN info["created"] ELSE <<>>)
    ELSE IF "status" \in DOMAIN info THEN StatusChars(info.status) ELSE <<>>

\* list.sort is stable: an element goes behind the elements that do not have to
\* follow it; with reverse=True equal elements keep their order as well
InsertStable(sorted, info, sort_by, reverse) ==
    LET follows(i) == IF reverse
                      THEN StrLess(SortKey(sorted[i], sort_by), SortKey(info, sort_by))
                      ELSE StrLess(SortKey(info, sort_by), SortKey(sorted[i], sort_by))
        k == IF \E i \in DOMAIN sorted : follows(i)
             THEN CHOOSE i \in DOMAIN sorted : follows(i) /\ \A j \in 1..(i - 1) : ~follows(j)
             ELSE Len(sorted) + 1
    IN  SubSeq(sorted, 1, k - 1) \o <<info>> \o SubSeq(sorted, k, Len(sorted))

RECURSIVE SortStable(_, _, _)
SortStable(infos, sort_by, reverse) ==
    IF infos = <<>> THEN <<>>
    ELSE InsertStable(SortStable(SubSeq(infos, 1, Len(infos) - 1), sort_by, reverse),
                      infos[Len(infos)], sort_by, reverse)

\* the sort step of the tool; any other sort_by leaves the order as it is
SortResults(infos, sort_by) ==
    IF sort_by = "name" THEN SortStable(infos, "name", FALSE)
    ELSE IF sort_by = "created" THEN SortStable(infos, "created", TRUE)
    ELSE IF sort_by = "status" THEN SortStable(infos, "status", FALSE)
    ELSE infos

\* the list_stacks tool of server.py
list_stacks_tool(base, filter, include_status, sort_by) ==
    LET all == list_stacks(base, FALSE)
        stacks == IF filter # <<>>
                  THEN SelectSeq(all, LAMBDA s : Contains(Lower(filter), Lower(s)))
                  ELSE all
        stack_info == [i \in DOMAIN stacks |-> StackInfo(base, stacks[i], include_status)]
        sorted == SortResults(stack_info, sort_by)
    IN  [success |-> TRUE, stacks |-> sorted, total |-> Len(sorted)]

F_compose == {"docker-compose.yml", ".env"}

\* What the base directory may hold
Candidates ==
    (N_web :> Item(TRUE, F_compose, <<S_running>>, 1))
    @@ (N_api :> Item(TRUE, {"compose.yaml"}, <<S_running, S_exited>>, 3))
    @@ (<<"Z","e","d">> :> Item(TRUE, F_compose, <<S_running>>, 2))
    @@ (N_db :> Item(TRUE, {"compose.yml"}, <<S_exited>>, 4))
    @@ (<<"o","l","d">> :> Item(TRUE, {"docker-compose.yaml"}, <<S_paused>>, 6))
    @@ (N_traefik :> Item(TRUE, F_compose, <<S_running>>, 0))
    @@ (<<"d","o","c","s">> :> Item(TRUE, {"compose.yaml"}, <<>>, 5))
    @@ (<<".","g","i","t">> :> Item(TRUE, {"docker-compose.yml"}, <<>>, 7))
    @@ (<<"t","m","p">> :> Item(TRUE, {"README.md"}, <<>>, 8))
    @@ (<<"n","o","t","e","s">> :> Item(FALSE, {}, <<>>, 9))

LsFilters == {<<>>, <<"E">>}

SortChoices == {"name", "created", "status", "size"}

NoListing == [success |-> FALSE, stacks |-> <<>>, total |-> 0]

LsReady(base) ==
    [pc |-> "ready", base |-> base, op |-> "-", include_system |-> FALSE, filter |-> <<>>,
     include_status |-> FALSE, sort_by |-> "-", names |-> <<>>, res |-> NoListing]

InitList ==
    /\ race = RaceIdle /\ zc = ZcIdle /\ ip = IpIdle /\ logctx = LogIdle /\ rpc = RpcIdle
    /\ life = LifeIdle
    /\ engine = EngineIdle
    /\ fs = FsInit /\ call = NoCall
    /\ probe = ProbeIdle /\ cf = CfIdle /\ zone = ZoneIdle /\ hc = HcIdle /\ ops = OpsIdle
    /\ vc = VcIdle /\ fn = FnIdle
    /\ \E present \in SUBSET DOMAIN Candidates :
          ls = LsReady([item \in present |-> Candidates[item]])

\* stack_utils.list_stacks is called
ListStacks ==
    /\ ls.pc = "ready"
    /\ \E include_system \in BOOLEAN :
          ls' = [ls EXCEPT !.pc = "listed", !.op = "list_stacks",
                           !.include_system = include_system,
                           !.names = list_stacks(ls.base, include_system)]
    /\ UNCHANGED <<fs, call, probe, cf, zone, hc, ops, vc, fn, engine, race, zc, ip, logctx, rpc, life>>

\* A client calls the list_stacks tool
ListStacksTool ==
    /\ ls.pc = "ready"
    /\ \E filter \in LsFilters, include_status \in BOOLEAN, sort_by \in SortChoices :
          ls' = [ls EXCEPT !.pc = "listed", !.op = "tool", !.filter = filter,
                           !.include_status = include_status, !.sort_by = sort_by,
                           !.res = list_stacks_tool(ls.base, filter, include_status, sort_by)]
    /\ UNCHANGED <<fs, call, probe, cf, zone, hc, ops, vc, fn, engine, race, zc, ip, logctx, rpc, life>>

\* The result has been delivered
ListReturns ==
    /\ ls.pc = "listed"
    /\ ls' = LsReady(ls.base)
    /\ UNCHANGED <<fs, call, probe, cf, zone, hc, ops, vc, fn, engine, race, zc, ip, logctx, rpc, life>>

NextList == ListStacks \/ ListStacksTool \/ ListReturns

SpecList == InitList /\ [][NextList]_vars

----------------------------------------------------------------------------
(* utils/stack_utils.py: slugify and render_template as functions           *)

MaxLen == 4

SlugAlphabet == {"a", "B", "1", "-", " ", "!", "_"}

\* The names slugify is evaluated on: every text over the alphabet up to the
\* length bound, and 'My App!!'
SlugInputs == UNION {[1..n -> SlugAlphabet] : n \in 0..MaxLen} \cup {<<"M","y"," ","A","p","p","!","!">>}

\* str.replace(old, new): the occurrences of old from left to right, not overlapping
RECURSIVE Replace(_, _, _)
Replace(s, old, new) ==
    IF Len(s) < Len(old) THEN s
    ELSE IF SubSeq(s, 1, Len(old)) = old
    THEN new \o Replace(SubSeq(s, Len(old) + 1, Len(s)), old, new)
    ELSE <<Head(s)>> \o Replace(Tail(s), old, new)

\* f"__{token}__"
Placeholder(token) == <<"_","_">> \o token \o <<"_","_">>

\* value.replace('&', '\\&')
Escaped(value) == Replace(value, <<"&">>, <<"\\","&">>)

Substitution(token, value) == [token |-> token, value |-> value]

\* The loop of render_template over substitutions.items(), in the order of the
\* dict; the content left at the end is what is written to output_path
RECURSIVE render_template(_, _)
render_template(content, substitutions) ==
    IF substitutions = <<>> THEN content
    ELSE render_template(
             Replace(content, Placeholder(Head(substitutions).token),
                     Escaped(Head(substitutions).value)),
             Tail(substitutions))

Tok_N == <<"N">>
Tok_P == <<"P">>

Templates == {<<"x","=","_","_","N","_","_">>,
     <<"_","_","N","_","_",":","_","_","P","_","_">>,
     <<"_","_","X","_","_"," ","_","_","N","_","_">>,
     <<"_","_","N","_","_"," ","_","_","N","_","_">>,
     <<"p","l","a","i","n">>,
     <<"_","_","P","_","_","/","_","_","N","_","_">>}

Values == {<<"a">>, <<"a","&","b">>, <<"_","_","P","_","_">>, <<"_","_","N","_","_">>, <<"&">>}

\* The dicts render_template is called with: one or two tokens, in either order
SubstitutionLists ==
    {<<Substitution(Tok_N, v)>> : v \in Values}
    \cup {<<Substitution(Tok_N, v), Substitution(Tok_P, w)>> : v \in Values, w \in Values}
    \cup {<<Substitution(Tok_P, w), Substitution(Tok_N, v)>> : v \in Values, w \in Values}

FnReady ==
    [pc |-> "ready", op |-> "-", x |-> <<>>, substitutions |-> <<>>, out |-> <<>>,
     again |-> <<>>]

InitText ==
    /\ race = RaceIdle /\ zc = ZcIdle /\ ip = IpIdle /\ logctx = LogIdle /\ rpc = RpcIdle
    /\ life = LifeIdle
    /\ engine = EngineIdle
    /\ fs = FsInit /\ call = NoCall
    /\ probe = ProbeIdle /\ cf = CfIdle /\ zone = ZoneIdle /\ hc = HcIdle /\ ops = OpsIdle
    /\ vc = VcIdle /\ ls = LsIdle
    /\ fn = FnReady

\* slugify(x), and slugify of what it returned
Slugify ==
    /\ fn.pc = "ready"
    /\ \E x \in SlugInputs :
          fn' = [fn EXCEPT !.pc = "returned", !.op = "slugify", !.x = x,
                           !.out = slugify(x), !.again = slugify(slugify(x))]
    /\ UNCHANGED <<fs, call, probe, cf, zone, hc, ops, vc, ls, engine, race, zc, ip, logctx, rpc, life>>

\* render_template on a template text and a dict of substitutions
RenderTemplate ==
    /\ fn.pc = "ready"
    /\ \E content \in Templates, substitutions \in SubstitutionLists :
          fn' = [fn EXCEPT !.pc = "returned", !.op = "render_template", !.x = content,
                           !.substitutions = substitutions,
                           !.out = render_template(content, substitutions)]
    /\ UNCHANGED <<fs, call, probe, cf, zone, hc, ops, vc, ls, engine, race, zc, ip, logctx, rpc, life>>

\* The value has been used
TextReturns ==
    /\ fn.pc = "returned"
    /\ fn' = FnReady
    /\ UNCHANGED <<fs, call, probe, cf, zone, hc, ops, vc, ls, engine, race, zc, ip, logctx, rpc, life>>

NextText == Slugify \/ RenderTemplate \/ TextReturns

SpecText == InitText /\ [][NextText]_vars

----------------------------------------------------------------------------
(* remove_stack together with the containers of the engine                  *)

\* `docker compose down` that exits 0 has stopped and removed the containers of
\* the stack; any other call leaves them as they are
AfterDown(containers, trace) ==
    IF \E i \in DOMAIN trace :
          /\ trace[i].kind = "compose" /\ trace[i].res = "ok"
          /\ trace[i].arg \in {<<"down">>, <<"down", "-v">>}
    THEN <<>> ELSE containers

RemoveNames == {N_my_app, N_traefik}

InitRemove ==
    /\ race = RaceIdle /\ zc = ZcIdle /\ ip = IpIdle /\ logctx = LogIdle /\ rpc = RpcIdle
    /\ life = LifeIdle
    /\ fs = [d \in RemoveNames |-> {"docker-compose.yml", ".env"}]
    /\ call = NoCall
    /\ probe = ProbeIdle /\ cf = CfIdle /\ zone = ZoneIdle /\ hc = HcIdle /\ ops = OpsIdle
    /\ vc = VcIdle /\ ls = LsIdle /\ fn = FnIdle
    /\ engine \in [RemoveNames -> ContainerLists]

\* remove_stack is invoked; `compose ps` answers with the containers the engine
\* holds for the stack
RemoveStack ==
    \E name \in RemoveNames, force \in BOOLEAN :
    \E ok \in ExitCodes(fs, name), rm \in RmOutcomes(fs, name, "remove") :
    \E out \in {remove_stack(fs, StackOperationParams(name, force), engine[name], ok, rm)} :
        /\ fs' = out.fs
        /\ call' = [NoCall EXCEPT !.op = "handler", !.name = name,
                                  !.existed = name \in DOMAIN fs,
                                  !.action = "remove", !.force = force,
                                  !.trace = out.trace, !.res = out.res]
        /\ engine' = [engine EXCEPT ![name] = AfterDown(@, out.trace)]
        /\ UNCHANGED <<probe, cf, zone, hc, ops, vc, ls, fn, race, zc, ip, logctx, rpc, life>>

NextRemove == RemoveStack

SpecRemove == InitRemove /\ [][NextRemove]_vars

----------------------------------------------------------------------------
(* server.py: two create_stack calls on one sanitized name                  *)
(* SpecRace interleaves the file-system steps of two invocations: the       *)
(* existence check, the creation of the directory, the write of .env, the   *)
(* write of docker-compose.yml and the return.                              *)

Invocations == {1, 2}

\* The stack directory of the shared sanitized name: whether it exists, the
\* invocation that created it (0: it was there before), the last writer of each
\* file (0: no such file) and the writes so far, in order
Tree(exists) == [exists |-> exists, maker |-> 0, env |-> 0, yml |-> 0,
                 writes |-> <<>>]

\* Variant: os.makedirs(stack_path, exist_ok=True)
makedirs_existOk(tree, who) ==
    IF tree.exists
    THEN [raised |-> FALSE, tree |-> tree]
    ELSE [raised |-> FALSE, tree |-> [tree EXCEPT !.exists = TRUE, !.maker = who]]

\* os.makedirs(stack_path, mode=0o750): mkdir of the leaf raises FileExistsError
\* when the path is there, creates it otherwise
makedirs(tree, who) ==
    IF tree.exists
    THEN [raised |-> TRUE, tree |-> tree]
    ELSE [raised |-> FALSE, tree |-> [tree EXCEPT !.exists = TRUE, !.maker = who]]

\* open(path, 'w') and write: the file is truncated and holds the writer's text
WriteEnvFile(tree, who) ==
    [tree EXCEPT !.env = who, !.writes = Append(@, <<who, ".env">>)]

WriteComposeFile(tree, who) ==
    [tree EXCEPT !.yml = who, !.writes = Append(@, <<who, "docker-compose.yml">>)]

Invocation(name) == [name |-> name, pc |-> "start", seen |-> FALSE, result |-> "none"]

Returned(r, result) == [r EXCEPT !.pc = "returned", !.result = result]

SameSlugPairs ==
    {p \in CreateNames \X CreateNames : slugify(p[1]) = slugify(p[2])}

InitRace ==
    /\ fs = FsInit /\ call = NoCall /\ probe = ProbeIdle /\ cf = CfIdle /\ zone = ZoneIdle
    /\ hc = HcIdle /\ ops = OpsIdle /\ vc = VcIdle /\ ls = LsIdle /\ fn = FnIdle
    /\ engine = EngineIdle
    /\ zc = ZcIdle /\ ip = IpIdle /\ logctx = LogIdle /\ rpc = RpcIdle /\ life = LifeIdle
    /\ \E p \in SameSlugPairs, exists \in BOOLEAN :
          race = [pc |-> "run", inv |-> <<Invocation(p[1]), Invocation(p[2])>>,
                  tree |-> Tree(exists)]

RaceOthers == <<fs, call, probe, cf, zone, hc, ops, vc, ls, fn, engine, zc, ip, logctx,
                rpc, life>>

\* StackConfig(...) and the type checks: a rejected request returns at once
RaceValidate(i) ==
    /\ race.pc = "run" /\ race.inv[i].pc = "start"
    /\ race' = [race EXCEPT !.inv[i] =
                  IF StackConfigValid(@.name, "pocketbase", None, None)
                  THEN [@ EXCEPT !.pc = "check"]
                  ELSE Returned(@, "failure")]
    /\ UNCHANGED RaceOthers

\* if stack_exists(sanitized_name): return failure
RaceCheck(i) ==
    /\ race.pc = "run" /\ race.inv[i].pc = "check"
    /\ race' = [race EXCEPT !.inv[i] =
                  IF race.tree.exists
                  THEN Returned([@ EXCEPT !.seen = TRUE], "failure")
                  ELSE [@ EXCEPT !.pc = "mkdir"]]
    /\ UNCHANGED RaceOthers

\* os.makedirs(stack_path) and the directories below it; FileExistsError reaches
\* `except Exception` and the call returns failure
RaceMakeDirs(i) ==
    /\ race.pc = "run" /\ race.inv[i].pc = "mkdir"
    /\ \E out \in {makedirs(race.tree, i)} :
          race' = [race EXCEPT !.tree = out.tree,
                               !.inv[i] = IF out.raised THEN Returned(@, "failure")
                                          ELSE [@ EXCEPT !.pc = "env"]]
    /\ UNCHANGED RaceOthers

\* the write of .env, or an OSError that ends the call
RaceWriteEnv(i) ==
    /\ race.pc = "run" /\ race.inv[i].pc = "env"
    /\ \E ioerr \in BOOLEAN :
          race' = IF ioerr
                  THEN [race EXCEPT !.inv[i] = Returned(@, "failure")]
                  ELSE [race EXCEPT !.tree = WriteEnvFile(@, i), !.inv[i].pc = "yml"]
    /\ UNCHANGED RaceOthers

\* the write of docker-compose.yml, or an OSError that ends the call
RaceWriteCompose(i) ==
    /\ race.pc = "run" /\ race.inv[i].pc = "yml"
    /\ \E ioerr \in BOOLEAN :
          race' = IF ioerr
                  THEN [race EXCEPT !.inv[i] = Returned(@, "failure")]
                  ELSE [race EXCEPT !.tree = WriteComposeFile(@, i), !.inv[i].pc = "finish"]
    /\ UNCHANGED RaceOthers

\* permissions, the optional DNS and start steps, and the success response
RaceFinish(i) ==
    /\ race.pc = "run" /\ race.inv[i].pc = "finish"
    /\ race' = [race EXCEPT !.inv[i] = Returned(@, "success")]
    /\ UNCHANGED RaceOthers

NextRace ==
    \E i \in Invocations :
        \/ RaceValidate(i)
        \/ RaceCheck(i)
        \/ RaceMakeDirs(i)
        \/ RaceWriteEnv(i)
        \/ RaceWriteCompose(i)
        \/ RaceFinish(i)

SpecRace == InitRace /\ [][NextRace]_vars

----------------------------------------------------------------------------
(* server.py: manage_stack on a base directory that holds system stacks     *)
(* and a stack of the user                                                  *)

ManageTrees ==
    {[d \in {N_traefik} |-> {"docker-compose.yml", ".env"}],
     [d \in {N_traefik, N_my_app} |-> {"docker-compose.yml", ".env"}],
     [d \in {N_traefik, N_my_app} |->
          IF d = N_traefik THEN {"docker-compose.yml"} ELSE {".env"}]}

InitManage ==
    /\ race = RaceIdle /\ zc = ZcIdle /\ ip = IpIdle /\ logctx = LogIdle /\ rpc = RpcIdle
    /\ life = LifeIdle
    /\ probe = ProbeIdle /\ cf = CfIdle /\ zone = ZoneIdle /\ hc = HcIdle /\ ops = OpsIdle
    /\ vc = VcIdle /\ ls = LsIdle /\ fn = FnIdle /\ engine = EngineIdle
    /\ fs \in ManageTrees
    /\ call = NoCall

SpecManage == InitManage /\ [][ManageStack]_vars

----------------------------------------------------------------------------
(* server.py: get_cloudflare_zone_id and server_state.cache                 *)

CacheTtl == 300

MaxClock == 700

\* The seconds that pass between two observations of the clock
TickSeconds == {100, 299}

ZoneDomains == {"rbnk.uk", "example.org"}

ProviderZoneIds == {"z1", "z2"}

\* f"zone_id_{domain}"
cache_key(domain) == <<"zone_id_", domain>>

CacheKeys == {cache_key(d) : d \in ZoneDomains}

NoEntry == [present |-> FALSE, zone_id |-> "", timestamp |-> 0]

CacheEntry(zone_id, timestamp) ==
    [present |-> TRUE, zone_id |-> zone_id, timestamp |-> timestamp]

\* What cloudflare_api_request hands back for GET zones?name=<domain>: a failure, a
\* success with no zone, or a success whose first zone has the given id
ZoneAnswers ==
    {[success |-> FALSE, zone_id |-> ""], [success |-> TRUE, zone_id |-> ""]}
    \cup {[success |-> TRUE, zone_id |-> z] : z \in ProviderZoneIds}

\* Variant: an entry is still served when exactly CacheTtl seconds old
CacheFresh_inclusive(entry, now) == entry.present /\ now - entry.timestamp <= CacheTtl

\* `cache_key in server_state.cache` and `time.time() - cached["timestamp"] < 300`
CacheFresh(entry, now) == entry.present /\ now - entry.timestamp < CacheTtl

ZoneResult(http, success, value, cache, now) ==
    [http |-> http, success |-> success, value |-> value, cache |-> cache, now |-> now]

\* get_cloudflare_zone_id(api_token, domain) called at time now; answer is what the
\* request returns if one is made, took the seconds the request lasts
get_cloudflare_zone_id(cache, domain, now, answer, took) ==
    LET key == cache_key(domain)
    IN  IF CacheFresh(cache[key], now)
        THEN ZoneResult(FALSE, TRUE, cache[key].zone_id, cache, now)
        ELSE IF ~answer.success
        THEN ZoneResult(TRUE, FALSE, "error", cache, now + took)
        ELSE IF answer.zone_id = ""
        THEN ZoneResult(TRUE, FALSE, "No zone found for domain", cache, now + took)
        ELSE ZoneResult(TRUE, TRUE, answer.zone_id,
                        [cache EXCEPT ![key] = CacheEntry(answer.zone_id, now + took)],
                        now + took)

NoZoneCall == [domain |-> "", at |-> 0, http |-> FALSE, success |-> FALSE, value |-> ""]

\* looked[d]: the last successful lookup over HTTP for domain d, if there was one
ZcReady(now, cache, looked) ==
    [pc |-> "ready", now |-> now, cache |-> cache, looked |-> looked, last |-> NoZoneCall]

InitZoneCache ==
    /\ fs = FsInit /\ call = NoCall /\ probe = ProbeIdle /\ cf = CfIdle /\ zone = ZoneIdle
    /\ hc = HcIdle /\ ops = OpsIdle /\ vc = VcIdle /\ ls = LsIdle /\ fn = FnIdle
    /\ engine = EngineIdle
    /\ race = RaceIdle /\ ip = IpIdle /\ logctx = LogIdle /\ rpc = RpcIdle /\ life = LifeIdle
    /\ zc = ZcReady(0, [k \in CacheKeys |-> NoEntry], [d \in ZoneDomains |-> NoEntry])

ZcOthers == <<fs, call, probe, cf, zone, hc, ops, vc, ls, fn, engine, race, ip, logctx,
              rpc, life>>

\* A DNS tool asks for the zone ID of a domain
GetZoneId ==
    /\ zc.pc = "ready"
    /\ \E domain \in ZoneDomains, answer \in ZoneAnswers, took \in {0, 100} :
       \E out \in {get_cloudflare_zone_id(zc.cache, domain, zc.now, answer, took)} :
          /\ out.now <= MaxClock
          /\ ~out.http => (took = 0 /\ answer.zone_id = "" /\ ~answer.success)
          /\ zc' = [pc |-> "returned", now |-> out.now, cache |-> out.cache,
                    looked |-> IF out.http /\ out.success
                               THEN [zc.looked EXCEPT ![domain] =
                                        CacheEntry(out.value, out.now)]
                               ELSE zc.looked,
                    last |-> [domain |-> domain, at |-> zc.now, http |-> out.http,
                              success |-> out.success, value |-> out.value]]
    /\ UNCHANGED ZcOthers

\* The caller goes on with the value
ZoneIdReturns ==
    /\ zc.pc = "returned"
    /\ zc' = [zc EXCEPT !.pc = "ready", !.last = NoZoneCall]
    /\ UNCHANGED ZcOthers

\* Time passes between two calls
ClockTick ==
    /\ zc.pc = "ready"
    /\ \E s \in TickSeconds :
          /\ zc.now + s <= MaxClock
          /\ zc' = [zc EXCEPT !.now = @ + s]
    /\ UNCHANGED ZcOthers

NextZoneCache == GetZoneId \/ ZoneIdReturns \/ ClockTick

SpecZoneCache == InitZoneCache /\ [][NextZoneCache]_vars

----------------------------------------------------------------------------
(* server.py: create_dns_record and the detection of the public address     *)

WhitespaceChars == {" ", "\n", "\t", "\r"}

\* str.strip()
RECURSIVE StripWhitespace(_)
StripWhitespace(s) ==
    IF s = <<>> THEN s
    ELSE IF Head(s) \in WhitespaceChars THEN StripWhitespace(Tail(s))
    ELSE IF s[Len(s)] \in WhitespaceChars THEN StripWhitespace(SubSeq(s, 1, Len(s) - 1))
    ELSE s

V_AUTO == <<"A","U","T","O">>
V_auto == <<"a","u","t","o">>
V_ip1  == <<"1",".","2">>
V_ip2  == <<"3",".","4">>

\* ip_services, in the order of the list
ip_services == <<"https://ipv4.icanhazip.com", "https://api.ipify.org",
                 "https://ifconfig.me/ip">>

\* What requests.get(service, timeout=5) meets: a response or an exception
EchoResponse(status, text) == [raised |-> FALSE, status |-> status, text |-> text]

EchoRaised == [raised |-> TRUE, status |-> 0, text |-> <<>>]

EchoOutcomes ==
    {EchoResponse(200, V_ip1), EchoResponse(200, <<" ">> \o V_ip2 \o <<"\n">>),
     EchoResponse(200, V_AUTO \o <<"\n">>), EchoResponse(503, V_ip1), EchoRaised}

IpRequest(method, url, content) == [method |-> method, url |-> url, content |-> content]

\* The loop over ip_services from position i on: the target and the requests sent
RECURSIVE DetectIp(_, _, _)
DetectIp(i, target, echo) ==
    IF i > Len(ip_services) THEN [target |-> target, sent |-> <<>>]
    ELSE LET get == IpRequest("GET", ip_services[i], <<>>)
         IN  IF ~echo[i].raised /\ echo[i].status = 200
             THEN [target |-> StripWhitespace(echo[i].text), sent |-> <<get>>]
             ELSE LET rest == DetectIp(i + 1, target, echo)
                  IN  [target |-> rest.target, sent |-> <<get>> \o rest.sent]

IpResult(success, error, target, sent) ==
    [success |-> success, error |-> error, target |-> target, sent |-> sent]

\* create_dns_record(subdomain, type, value): token: whether an API token is found;
\* zone_success: the result of get_cloudflare_zone_id; echo: what each IP service
\* would answer; post_success: the result of the POST of the record
create_dns_record(type, value, token, zone_success, echo, post_success) ==
    LET auto == type = "A" /\ value = V_AUTO
        det  == IF auto THEN DetectIp(1, value, echo) ELSE [target |-> value, sent |-> <<>>]
        post == IpRequest("POST", "dns_records", det.target)
    IN  IF ~token THEN IpResult(FALSE, "Cloudflare API token not configured", <<>>, <<>>)
        ELSE IF ~zone_success THEN IpResult(FALSE, "zone", <<>>, <<>>)
        ELSE IF auto /\ det.target = V_AUTO
        THEN IpResult(FALSE, "Failed to auto-detect public IP", <<>>, det.sent)
        ELSE IF post_success THEN IpResult(TRUE, "", det.target, det.sent \o <<post>>)
        ELSE IpResult(FALSE, "api", <<>>, det.sent \o <<post>>)

IpReady == [pc |-> "ready", type |-> "-", value |-> <<>>, proceeds |-> FALSE,
            echo |-> <<EchoRaised, EchoRaised, EchoRaised>>,
            res |-> IpResult(FALSE, "", <<>>, <<>>)]

InitIp ==
    /\ fs = FsInit /\ call = NoCall /\ probe = ProbeIdle /\ cf = CfIdle /\ zone = ZoneIdle
    /\ hc = HcIdle /\ ops = OpsIdle /\ vc = VcIdle /\ ls = LsIdle /\ fn = FnIdle
    /\ engine = EngineIdle
    /\ race = RaceIdle /\ zc = ZcIdle /\ logctx = LogIdle /\ rpc = RpcIdle /\ life = LifeIdle
    /\ ip = IpReady

IpOthers == <<fs, call, probe, cf, zone, hc, ops, vc, ls, fn, engine, race, zc, logctx,
              rpc, life>>

\* A client calls the create_dns_record tool
CreateDnsRecord ==
    /\ ip.pc = "ready"
    /\ \E type \in {"A", "CNAME"}, value \in {V_AUTO, V_auto, V_ip1},
          token \in BOOLEAN, zone_success \in BOOLEAN, post_success \in BOOLEAN :
       \E echo \in (IF type = "A" /\ value = V_AUTO /\ token /\ zone_success
                    THEN [1..3 -> EchoOutcomes] ELSE {IpReady.echo}) :
          ip' = [pc |-> "returned", type |-> type, value |-> value,
                 proceeds |-> token /\ zone_success, echo |-> echo,
                 res |-> create_dns_record(type, value, token, zone_success, echo,
                                           post_success)]
    /\ UNCHANGED IpOthers

\* The response reaches the client
DnsRecordReturns ==
    /\ ip.pc = "returned"
    /\ ip' = IpReady
    /\ UNCHANGED IpOthers

NextIp == CreateDnsRecord \/ DnsRecordReturns

SpecIp == InitIp /\ [][NextIp]_vars

----------------------------------------------------------------------------
(* utils/logging.py: LogContext and the process-wide log-record factory     *)
(* A factory is the chain of contexts whose fields it sets on a record, on  *)
(* top of the factory installed at start, which is the empty chain.         *)

Contexts == {1, 2, 3}

BaseFactory == <<>>

\* LogContext(logger, **kwargs): old_factory is None until the context is entered
NewContext == [state |-> "new", old_factory |-> BaseFactory, how |-> "-"]

\* record_factory(*args): the record of old_factory with the context's fields set
record_factory(old_factory, c) == Append(old_factory, c)

\* The fields a record made by factory carries, one per context of the chain
RecordFields(factory) == {factory[i] : i \in DOMAIN factory}

\* __enter__: the current factory is wrapped and kept in self.old_factory
LogEnter(l, c) ==
    [l EXCEPT !.factory = record_factory(l.factory, c),
              !.ctx[c] = [state |-> "open", old_factory |-> l.factory, how |-> "-"]]

\* __exit__: logging.setLogRecordFactory(self.old_factory), whether the block
\* returned or raised
LogExit(l, c, how) ==
    [l EXCEPT !.factory = l.ctx[c].old_factory,
              !.ctx[c].state = "closed", !.ctx[c].how = how]

OpenContexts(l) == {c \in Contexts : l.ctx[c].state = "open"}

ClosedContexts(l) == {c \in Contexts : l.ctx[c].state = "closed"}

NoRecord == [emitted |-> FALSE, fields |-> {}, open |-> {}, closed |-> {}]

InitLog ==
    /\ fs = FsInit /\ call = NoCall /\ probe = ProbeIdle /\ cf = CfIdle /\ zone = ZoneIdle
    /\ hc = HcIdle /\ ops = OpsIdle /\ vc = VcIdle /\ ls = LsIdle /\ fn = FnIdle
    /\ engine = EngineIdle
    /\ race = RaceIdle /\ zc = ZcIdle /\ ip = IpIdle /\ rpc = RpcIdle /\ life = LifeIdle
    /\ logctx = [pc |-> "run", factory |-> BaseFactory,
                 ctx |-> [c \in Contexts |-> NewContext], record |-> NoRecord]

LogOthers == <<fs, call, probe, cf, zone, hc, ops, vc, ls, fn, engine, race, zc, ip, rpc,
               life>>

\* An operation enters its `with LogContext(...)` block
EnterContext ==
    /\ logctx.pc = "run"
    /\ \E c \in Contexts :
          /\ logctx.ctx[c].state = "new"
          /\ logctx' = LogEnter(logctx, c)
    /\ UNCHANGED LogOthers

\* An operation leaves its block, by a return or by an exception; operations that
\* await inside the block leave in any order
ExitContext ==
    /\ logctx.pc = "run"
    /\ \E c \in Contexts, how \in {"return", "raise"} :
          /\ logctx.ctx[c].state = "open"
          /\ logctx' = LogExit(logctx, c, how)
    /\ UNCHANGED LogOthers

\* A logger call makes a record with the factory installed at that moment
EmitRecord ==
    /\ logctx.pc = "run"
    /\ logctx' = [logctx EXCEPT !.record =
                    [emitted |-> TRUE, fields |-> RecordFields(logctx.factory),
                     open |-> OpenContexts(logctx), closed |-> ClosedContexts(logctx)]]
    /\ UNCHANGED LogOthers

NextLog == EnterContext \/ ExitContext \/ EmitRecord

SpecLog == InitLog /\ [][NextLog]_vars

----------------------------------------------------------------------------
(* mcp_server.py: StackWizMCPServer.handle_request and run_stdio            *)

PARSE_ERROR == -32700
INVALID_REQUEST == -32600
METHOD_NOT_FOUND == -32601
INTERNAL_ERROR == -32603

MaxInput == 3

\* self.methods
Methods == {"initialize", "initialized", "shutdown", "list_tools", "call_tool",
            "list_resources", "read_resource", "list_prompts", "get_prompt",
            "health_check", "server_info"}

MCPRequest(method, id, arg) == [method |-> method, id |-> id, arg |-> arg]

MCPResponse(id, result, code, message) ==
    [id |-> id, has_error |-> code # 0, result |-> result, code |-> code,
     message |-> message]

\* What `await method(request.params or {})` does; arg is "known" when the name or
\* uri of the parameters is one the server lists
Handler(method, arg) ==
    IF method = "call_tool"
    THEN [raised |-> TRUE, value |-> None,
          text |-> IF arg = "known" THEN "Tool should be implemented in server.py"
                   ELSE "Unknown tool"]
    ELSE IF method \in {"read_resource", "get_prompt"} /\ arg # "known"
    THEN [raised |-> TRUE, value |-> None,
          text |-> IF method = "get_prompt" THEN "Unknown prompt" ELSE "Unknown resource"]
    ELSE IF method \in {"initialized", "shutdown"}
    THEN [raised |-> FALSE, value |-> None, text |-> ""]
    ELSE [raised |-> FALSE, value |-> "result of " \o method, text |-> ""]

\* Variant: the counter is advanced only for a method the server knows
Counted_knownOnly(count, method) == IF method \in Methods THEN count + 1 ELSE count

\* `self.operation_count += 1` ahead of the try block
Counted(count, method) == count + 1

\* handle_request(request): the counter after the call and the response
handle_request(count, request) ==
    LET h == Handler(request.method, request.arg)
    IN  [count |-> Counted(count, request.method),
         response |->
            IF request.method \notin Methods
            THEN MCPResponse(request.id, None, METHOD_NOT_FOUND, "Method not found")
            ELSE IF h.raised THEN MCPResponse(request.id, None, INTERNAL_ERROR, h.text)
            ELSE MCPResponse(request.id, h.value, 0, "")]

\* A line of input: its text parses as JSON or not, the JSON is an object that
\* MCPRequest accepts or not
Line(kind, request) == [kind |-> kind, request |-> request]

NoRequest == MCPRequest("", None, "")

RequestIds == {None, "1", "abc"}

InputLines ==
    {Line(k, NoRequest) : k \in {"blank", "not_json", "json_list", "no_method", "bad_id"}}
    \cup {Line("request", MCPRequest(m, i, a)) :
            m \in Methods \cup {"tools/list"}, i \in RequestIds, a \in {"known", "unknown"}}

NoResponse == MCPResponse(None, None, 0, "")

\* One pass of the loop of run_stdio over a line that was read: the responses it
\* writes and the counter after it
ProcessLine(count, line) ==
    IF line.kind \in {"blank", "not_json"}
    THEN [count |-> count,
          written |-> <<MCPResponse(None, None, PARSE_ERROR, "Parse error")>>]
    ELSE IF line.kind # "request"
    THEN [count |-> count, written |-> <<>>]
    ELSE LET out == handle_request(count, line.request)
         IN  [count |-> out.count, written |-> <<out.response>>]

InitRpc ==
    /\ fs = FsInit /\ call = NoCall /\ probe = ProbeIdle /\ cf = CfIdle /\ zone = ZoneIdle
    /\ hc = HcIdle /\ ops = OpsIdle /\ vc = VcIdle /\ ls = LsIdle /\ fn = FnIdle
    /\ engine = EngineIdle
    /\ race = RaceIdle /\ zc = ZcIdle /\ ip = IpIdle /\ logctx = LogIdle /\ life = LifeIdle
    /\ rpc = [pc |-> "reading", read |-> 0, requests |-> 0, operation_count |-> 0,
              line |-> Line("none", NoRequest), written |-> <<>>, responses |-> 0]

RpcOthers == <<fs, call, probe, cf, zone, hc, ops, vc, ls, fn, engine, race, zc, ip,
               logctx, life>>

\* readline() returns a line and the loop body runs on it
ReadLine ==
    /\ rpc.pc = "reading" /\ rpc.read < MaxInput
    /\ \E line \in InputLines :
       \E out \in {ProcessLine(rpc.operation_count, line)} :
          rpc' = [pc |-> "reading", read |-> rpc.read + 1,
                  requests |-> rpc.requests + (IF line.kind = "request" THEN 1 ELSE 0),
                  operation_count |-> out.count, line |-> line,
                  written |-> out.written,
                  responses |-> rpc.responses + Len(out.written)]
    /\ UNCHANGED RpcOthers

\* readline() returns nothing: the input is closed and the loop ends
EndOfInput ==
    /\ rpc.pc = "reading"
    /\ rpc' = [rpc EXCEPT !.pc = "stopped", !.line = Line("none", NoRequest),
                          !.written = <<>>]
    /\ UNCHANGED RpcOthers

NextRpc == ReadLine \/ EndOfInput

SpecRpc == InitRpc /\ [][NextRpc]_vars

----------------------------------------------------------------------------
(* server.py: lifespan, initialize_tools and ServerState.active_operations  *)

Resources == {"StackConfigsResource", "TemplatesResource", "InfrastructureResource"}

Prompts == {"DeployWebAppPrompt", "SetupDatabasePrompt", "CreateApiServicePrompt"}

OperationIds == {"op1", "op2"}

\* Variant: an unhealthy report ends the startup
AfterHealthChecks_abort(healthy) == IF healthy THEN "checked" ELSE "aborted"

\* After `await check_all()` the startup goes on whatever the report says
AfterHealthChecks(healthy) == "checked"

\* `if not health_status["healthy"]`: one warning, then one per unhealthy check
HealthWarnings(healthy) == IF healthy THEN <<>> ELSE <<"unhealthy_warning">>

\* Variant: the shutdown drops what is still tracked
AtShutdown_cleared(active) == {}

\* The shutdown reads active_operations and leaves it as it is
AtShutdown(active) == active

ActiveWarnings(active) == IF active # {} THEN <<"active_warning">> ELSE <<>>

InitLife ==
    /\ fs = FsInit /\ call = NoCall /\ probe = ProbeIdle /\ cf = CfIdle /\ zone = ZoneIdle
    /\ hc = HcIdle /\ ops = OpsIdle /\ vc = VcIdle /\ ls = LsIdle /\ fn = FnIdle
    /\ engine = EngineIdle
    /\ race = RaceIdle /\ zc = ZcIdle /\ ip = IpIdle /\ logctx = LogIdle /\ rpc = RpcIdle
    /\ life = [pc |-> "start", log |-> <<>>, pending |-> {}, unhealthy |-> {},
               healthy |-> TRUE, resources |-> {}, prompts |-> {}, active |-> {}]

LifeOthers == <<fs, call, probe, cf, zone, hc, ops, vc, ls, fn, engine, race, zc, ip,
                logctx, rpc>>

\* config = get_config()
LoadConfig ==
    /\ life.pc = "start"
    /\ life' = [life EXCEPT !.pc = "configured", !.log = Append(@, "config")]
    /\ UNCHANGED LifeOthers

\* check_all() starts one task per check
StartHealthChecks ==
    /\ life.pc = "configured"
    /\ life' = [life EXCEPT !.pc = "checking", !.pending = CheckNames,
                            !.log = Append(@, "checks_started")]
    /\ UNCHANGED LifeOthers

\* One check ends, healthy or not, by its result, its exception or its timeout
HealthCheckEnds ==
    /\ life.pc = "checking"
    /\ \E c \in life.pending, ok \in BOOLEAN :
          life' = [life EXCEPT !.pending = @ \ {c},
                               !.unhealthy = IF ok THEN @ ELSE @ \cup {c}]
    /\ UNCHANGED LifeOthers

\* asyncio.gather returns once every task has ended; lifespan logs the report
HealthChecksDone ==
    /\ life.pc = "checking" /\ life.pending = {}
    /\ \E healthy \in {\A c \in life.unhealthy : ~IsCritical(c)} :
          life' = [life EXCEPT !.pc = AfterHealthChecks(healthy), !.healthy = healthy,
                               !.log = @ \o <<"checks_done">> \o HealthWarnings(healthy)]
    /\ UNCHANGED LifeOthers

\* await initialize_tools(config): the resources, then the prompts
InitializeTools ==
    /\ life.pc = "checked"
    /\ life' = [life EXCEPT !.pc = "registered", !.resources = Resources,
                            !.prompts = Prompts,
                            !.log = @ \o <<"resources", "prompts">>]
    /\ UNCHANGED LifeOthers

\* logger.info("Server startup complete") and the yield
StartupComplete ==
    /\ life.pc = "registered"
    /\ life' = [life EXCEPT !.pc = "serving", !.log = Append(@, "ready")]
    /\ UNCHANGED LifeOthers

\* ServerState.add_active_operation
AddActiveOperation ==
    /\ life.pc = "serving"
    /\ \E id \in OperationIds \ life.active : life' = [life EXCEPT !.active = @ \cup {id}]
    /\ UNCHANGED LifeOthers

\* ServerState.remove_active_operation
RemoveActiveOperation ==
    /\ life.pc = "serving"
    /\ \E id \in life.active : life' = [life EXCEPT !.active = @ \ {id}]
    /\ UNCHANGED LifeOthers

\* The code after the yield
Shutdown ==
    /\ life.pc = "serving"
    /\ life' = [life EXCEPT !.pc = "stopped", !.active = AtShutdown(@),
                            !.log = @ \o <<"shutdown">> \o ActiveWarnings(life.active)
                                      \o <<"shutdown_complete">>]
    /\ UNCHANGED LifeOthers

NextLife ==
    \/ LoadConfig \/ StartHealthChecks \/ HealthCheckEnds \/ HealthChecksDone
    \/ InitializeTools \/ StartupComplete \/ AddActiveOperation
    \/ RemoveActiveOperation \/ Shutdown

SpecLife == InitLife /\ [][NextLife]_vars

----------------------------------------------------------------------------
(* Properties                                                               *)

HasUpperOrSpace(n) == \E i \in DOMAIN n : n[i] \in Range(UpperLetters) \cup {" "}

IsStackOp(c, action) == c.op \in {"manage_stack", "handler"} /\ c.action = action

\* The compose subcommands a call issued, in order, the `ps` status queries left out
Commands(trace) ==
    LET keep(e) == e.kind = "compose" /\ e.arg # PsCommand
        sel == SelectSeq(trace, keep)
    IN  [i \in DOMAIN sel |-> sel[i].arg]

Kinds(trace) == {trace[i].kind : i \in DOMAIN trace}

\* C1: create_stack with a name containing uppercase letters or spaces, valid
\* generic arguments and a free slug succeeds under the slug: the existence check
\* and the directory creation use slugify(name), and stack.name is the slug.
C1_UppercaseNameIsSlugified ==
    (/\ call.op = "create_stack"
     /\ HasUpperOrSpace(call.name)
     /\ call.type = "generic" /\ call.image # None /\ call.port # None
     /\ ~call.existed)
    => (/\ call.res.success
        /\ call.res.name = slugify(call.name)
        /\ slugify(call.name) \in DOMAIN fs
        /\ \E i \in DOMAIN call.trace :
              call.trace[i] = Event("exists", slugify(call.name), <<>>, "no"))

\* C2: create_stack for a name whose slug already exists (the arguments being
\* otherwise valid) fails with "already exists" and writes nothing to the
\* filesystem: no directory, no file, no marker or scratch file either.
C2_ExistingSlugNoWrites ==
    (/\ call.op = "create_stack" /\ call.existed
     /\ ~HasUpperOrSpace(call.name)
     /\ call.type = "generic" /\ call.image # None /\ call.port # None)
    => (/\ ~call.res.success
        /\ call.res.error = "already exists"
        /\ Kinds(call.trace) \cap {"write_tmp", "makedirs", "write", "rmtree"} = {})

C3_FilesWritten ==
    /\ call.op = "create_stack"
    /\ \E i \in DOMAIN call.trace :
          call.trace[i] = WriteFile(slugify(call.name), "docker-compose.yml", "ok")

C3_ScriptOk == \E i \in DOMAIN call.trace :
                  call.trace[i].kind = "script" /\ call.trace[i].res = "ok"

C3_UpOk == \E i \in DOMAIN call.trace :
              /\ call.trace[i].kind = "compose"
              /\ call.trace[i].arg = <<"up", "-d">>
              /\ call.trace[i].res = "ok"

\* C3: once create_stack has written the stack's directories and files, a failing
\* or missing DNS script and a failing `compose up -d` never fail the call: it
\* returns success with dns_created = (create_dns and the script succeeded),
\* auto_started = (auto_start and compose up succeeded), status "running" iff
\* auto_started and "created" otherwise; without create_dns no script is run and
\* without auto_start no compose command.
C3_BestEffortSubsteps ==
    C3_FilesWritten
    => (/\ call.res.success
        /\ call.res.dns_created = (call.create_dns /\ C3_ScriptOk)
        /\ call.res.auto_started = (call.auto_start /\ C3_UpOk)
        /\ call.res.status = (IF call.res.auto_started THEN "running" ELSE "created")
        /\ ~call.create_dns => "script" \notin Kinds(call.trace)
        /\ ~call.auto_start => "compose" \notin Kinds(call.trace)
        /\ (~call.create_dns /\ ~call.auto_start)
              => (call.res.status = "created" /\ ~call.res.dns_created))

C3_Witness ==
    /\ C3_FilesWritten
    /\ call.create_dns /\ call.auto_start
    /\ \E i \in DOMAIN call.trace :
          call.trace[i].kind = "script" /\ call.trace[i].res = "fail"
    /\ \E i \in DOMAIN call.trace :
          call.trace[i].kind = "compose" /\ call.trace[i].res = "fail"
    /\ call.res.success /\ call.res.status = "created"
    /\ ~call.res.dns_created /\ ~call.res.auto_started

\* A create_stack call that raised after it had made the stack directory
C4_Raised(c) ==
    /\ c.op = "create_stack"
    /\ \E i \in DOMAIN c.trace : c.trace[i].kind = "makedirs"
    /\ \E i \in DOMAIN c.trace : c.trace[i].res = "raise"

\* C4: a create_stack that fails after the stack directory was made returns
\* success:false with the error text and removes nothing: the directory and what
\* was written stay, and the next create_stack of the same name fails (with
\* "already exists" when its arguments are otherwise valid) and changes nothing.
C4_NoRollback ==
    [][ /\ C4_Raised(call')
            => (/\ ~call'.res.success
                /\ call'.res.error # ""
                /\ "rmtree" \notin Kinds(call'.trace)
                /\ slugify(call'.name) \in DOMAIN fs'
                /\ BaseDirs \subseteq fs'[slugify(call'.name)])
        /\ (C4_Raised(call) /\ call'.op = "create_stack" /\ call'.name = call.name)
            => (/\ ~call'.res.success
                /\ fs' = fs
                /\ (call'.type = "pocketbase"
                      \/ (call'.type = "generic" /\ call'.image # None /\ call'.port # None))
                   => call'.res.error = "already exists")
      ]_vars

C4_Witness ==
    /\ call.op = "create_stack"
    /\ call.res.error = "already exists"
    /\ slugify(call.name) \in DOMAIN fs
    /\ "docker-compose.yml" \notin fs[slugify(call.name)]

\* C5: start, stop, restart, remove and logs on a stack name whose directory does
\* not exist fail with a not-found error; the existence check is the only thing
\* the call does: no compose command is issued and no file or directory changes.
C5_NotFoundFirst ==
    [][ (/\ call'.op \in {"manage_stack", "handler"}
         /\ call'.action \in Actions
         /\ call'.name \notin DOMAIN fs)
        => (/\ ~call'.res.success
            /\ call'.res.error \in {"Stack '<stack_name>' not found", "Stack not found"}
            /\ call'.trace = <<Event("exists", call'.name, <<>>, "no")>>
            /\ fs' = fs)
      ]_vars

C5_Witness ==
    /\ call.op = "manage_stack" /\ call.action = "remove"
    /\ ~call.existed
    /\ ~call.res.success
    /\ call.res.error = "Stack '<stack_name>' not found"
    /\ DOMAIN fs # {}

C7_SystemStacks == {
    <<"t", "r", "a", "e", "f", "i", "k">>,
    <<"m", "o", "n", "i", "t", "o", "r", "i", "n", "g">>,
    <<"s", "u", "p", "a", "b", "a", "s", "e">>,
    <<"a", "d", "g", "u", "a", "r", "d">>,
    <<"_", "b", "a", "c", "k", "u", "p">>,
    <<"_", "s", "c", "r", "i", "p", "t", "s">>,
    <<"_", "t", "e", "m", "p", "l", "a", "t", "e", "s">>,
    <<"d", "o", "c", "s">> }

\* C7: remove on an existing stack named in the system-stack set, without force,
\* fails with "Protected system stack", issues no compose command and leaves the
\* directory tree as it was; with force it is not refused.
C7_ProtectedNotRemoved ==
    [][ (/\ IsStackOp(call', "remove")
         /\ call'.name \in DOMAIN fs
         /\ call'.name \in C7_SystemStacks)
        => IF ~call'.force
           THEN /\ ~call'.res.success
                /\ call'.res.error = "Protected system stack"
                /\ Kinds(call'.trace) = {"exists"}
                /\ fs' = fs
           ELSE /\ call'.res.error # "Protected system stack"
                /\ Kinds(call'.trace) \cap {"compose", "rmtree"} # {}
      ]_vars

C7_Witness ==
    /\ IsStackOp(call, "remove") /\ call.name = N_traefik
    /\ call.existed /\ ~call.force
    /\ call.res.error = "Protected system stack"
    /\ N_traefik \in DOMAIN fs

C8_Index(trace, kind) ==
    CHOOSE i \in DOMAIN trace : trace[i].kind = kind /\ trace[i].arg # PsCommand

\* C8: remove on an existing stack outside the system-stack set whose derived
\* status is "running" issues `compose down` (with -v exactly when force is set)
\* before any deletion; if the command fails the call fails and the directory tree
\* is unchanged; if it succeeds the directory is deleted (rmtree is called; the
\* call succeeds unless rmtree itself raises), and after a successful remove the
\* stack no longer exists.
C8_RemoveRunning ==
    [][ (/\ IsStackOp(call', "remove")
         /\ call'.name \in DOMAIN fs
         /\ call'.name \notin C7_SystemStacks
         /\ call'.res.status = "running")
        => LET t == call'.trace
               down == t[C8_Index(t, "compose")]
           IN  /\ Commands(t) = << IF call'.force THEN <<"down", "-v">> ELSE <<"down">> >>
               /\ "rmtree" \in Kinds(t) => C8_Index(t, "compose") < C8_Index(t, "rmtree")
               /\ down.res # "ok"
                    => (~call'.res.success /\ "rmtree" \notin Kinds(t) /\ fs' = fs)
               /\ down.res = "ok"
                    => (/\ "rmtree" \in Kinds(t)
                        /\ call'.res.success = (t[C8_Index(t, "rmtree")].res = "ok"))
               /\ call'.res.success
                    => (/\ call'.name \notin DOMAIN fs'
                        /\ fs' = [d \in (DOMAIN fs) \ {call'.name} |-> fs[d]])
      ]_vars

C8_Witness ==
    /\ IsStackOp(call, "remove") /\ call.name = N_my_app
    /\ call.existed /\ call.force
    /\ call.res.status = "running"
    /\ Commands(call.trace) = << <<"down", "-v">> >>
    /\ call.res.success
    /\ N_my_app \notin DOMAIN fs

\* C9: manage_stack with action logs and follow_logs set, on an existing stack,
\* fails reporting follow mode as unsupported and starts no external command.
C9_FollowRejected ==
    (/\ call.op = "manage_stack" /\ call.action = "logs"
     /\ call.follow_logs /\ call.existed)
    => (/\ ~call.res.success
        /\ call.res.error = "Unsupported operation"
        /\ Kinds(call.trace) = {"exists"})

C9_Witness ==
    /\ call.op = "manage_stack" /\ call.action = "logs"
    /\ call.follow_logs /\ call.existed
    /\ ~call.res.success
    /\ call.res.error = "Unsupported operation"

\* C10: manage_stack with action logs, follow_logs unset and tail_lines = n on an
\* existing stack invokes `compose logs --tail=n` with the caller's n.
C10_TailIsCallersValue ==
    (/\ call.op = "manage_stack" /\ call.action = "logs"
     /\ ~call.follow_logs /\ call.existed)
    => Commands(call.trace) = << <<"logs", "--tail=" \o ToString(call.tail_lines)>> >>

C11_RunningLike == {<<"r","u","n","n","i","n","g">>, <<"u","p">>}
C11_StoppedLike == {<<"e","x","i","t","e","d">>, <<"s","t","o","p","p","e","d">>,
                    <<"c","r","e","a","t","e","d">>}

C11_Expected(containers, exists) ==
    LET low(i) == Lower(containers[i])
        idx == DOMAIN containers
    IN  IF Len(containers) = 0 THEN (IF exists THEN "created" ELSE "error")
        ELSE IF \E i \in idx : low(i) \notin C11_RunningLike \cup C11_StoppedLike
        THEN "error"
        ELSE IF \A i \in idx : low(i) \in C11_RunningLike THEN "running"
        ELSE IF \A i \in idx : low(i) \in C11_StoppedLike THEN "stopped"
        ELSE "created"

\* C11: get_stack_status is this function of the container states: the empty list
\* gives "created" if the directory exists and "error" otherwise; else, states
\* compared case-insensitively, any state outside running/up/exited/stopped/created
\* gives "error", all running-like gives "running", all stopped-like gives
\* "stopped", and a mixture gives "created"; no other value is ever returned.
C11_StatusFunction ==
    probe.pc = "returned"
    => (/\ probe.status = C11_Expected(probe.containers, probe.exists)
        /\ probe.status \in {"running", "stopped", "created", "error"})

C11_Witness ==
    /\ probe.pc = "returned"
    /\ probe.containers = <<S_Running, S_exited>>
    /\ probe.status = "created"

C12_Requests(log) == SelectSeq(log, LAMBDA e : e.ev = "request")

C12_Sleeps(log) == SelectSeq(log, LAMBDA e : e.ev # "request")

C12_Seconds == [h \in {<<"5">>, <<"0">>, <<"1","2">>} |->
                   IF h = <<"5">> THEN 5 ELSE IF h = <<"0">> THEN 0 ELSE 12]

C12_Schedule == <<1, 2, 4>>

\* Whether a request met something the client retries
C12_Retried(r) ==
    \/ r.kind \in {"timeout", "connection"}
    \/ r.kind = "response" /\ (r.status = 429 \/ r.status \in 500..599)

C13_Bounded ==
    cf.pc # "idle"
    => (/\ Len(C12_Requests(cf.log)) <= 4
        /\ Len(C12_Sleeps(cf.log)) <= 3
        /\ \A i \in DOMAIN cf.log : cf.log[i].ev # "request" => cf.log[i].attempt < 3
        /\ cf.pc \in {"done", "after"}
              => (cf.log = <<>> \/ cf.log[Len(cf.log)].ev # "sleep")
        /\ cf.pc = "done" => cf.result.success \in BOOLEAN /\ cf.result # NoResult)

\* C13: whatever each attempt meets, one call with max_retries = 3 makes at most 4
\* requests and at most 3 sleeps, does not sleep after its last attempt, and
\* always comes to return a (success, data) pair.
C13_BoundedAndTerminates ==
    []C13_Bounded /\ ((cf.pc \in {"loop", "after"}) ~> (cf.pc = "done"))

C13_Witness ==
    /\ cf.pc = "done"
    /\ Len(C12_Requests(cf.log)) = 4
    /\ Len(C12_Sleeps(cf.log)) = 3
    /\ cf.log[Len(cf.log)].kind = "timeout"
    /\ ~cf.result.success

\* C14: cloudflare_api_request returns success only when its last attempt got
\* status 200 or 201 with a JSON body reporting success; every other result is a
\* failure that carries a non-empty error string.
C14_OnlySuccessPath ==
    cf.pc = "done"
    => IF cf.result.success
       THEN /\ cf.last.kind = "response"
            /\ cf.last.status \in {200, 201}
            /\ cf.last.json /\ cf.last.success
       ELSE cf.result.error # ""

\* C15: when all four attempts failed, the result tells the last failure: a final
\* 429 gives the rate-limit failure with status_code 429, a final 5xx a
\* server-error failure with that status code, a final timeout or connection error
\* a failure whose error is the text of that error.
C15_LastFailureReported ==
    (cf.pc = "done" /\ Len(C12_Requests(cf.log)) = 4 /\ C12_Retried(cf.log[Len(cf.log)]))
    => LET r == cf.last
       IN  /\ ~cf.result.success
           /\ r.status = 429
                => cf.result = CfResult(FALSE, "Rate limit exceeded after max retries", 429)
           /\ r.status \in 500..599
                => (/\ cf.result.status_code = r.status
                    /\ cf.result.error \in {"Server error 500 after max retries",
                                            "Server error 503 after max retries"})
           /\ r.kind = "timeout" => cf.result.error = "Request timeout"
           /\ r.kind = "connection"
                => cf.result.error = "Connection error: Connection refused"

C15_Witness ==
    /\ cf.pc = "done" /\ Len(C12_Requests(cf.log)) = 4
    /\ cf.log[1].kind = "timeout"
    /\ cf.last.status = 503
    /\ cf.result.status_code = 503
    /\ ~cf.result.success

C16_Deletes == SelectSeq(zone.requests, LAMBDA c : c.method = "DELETE")

C16_LookupDone ==
    /\ zone.op = "delete_dns_record"
    /\ \E i \in DOMAIN zone.requests :
          zone.requests[i] = ApiCall("GET", "dns_records", 0, FALSE, TRUE)

\* C16: delete_dns_record whose lookup returns k >= 1 records issues one DELETE
\* per record, in lookup order, going on after a rejected one; with d deletions
\* accepted it returns success with records_deleted = d when d >= 1, with a
\* failed_records list exactly when d < k, of k - d entries, and failure when
\* d = 0; the records accepted are gone and the others stay. When the lookup
\* returns no record, or fails, it returns failure and issues no DELETE.
C16_DeleteEachRecord ==
    zone.op = "delete_dns_record"
    => LET k == Len(zone.before)
           d == Len(SelectSeq(C16_Deletes, LAMBDA c : c.ok))
       IN  IF C16_LookupDone /\ k >= 1
           THEN /\ Len(C16_Deletes) = k
                /\ \A i \in 1..k : C16_Deletes[i].id = zone.before[i].id
                /\ zone.res.success = (d >= 1)
                /\ d >= 1 => (/\ zone.res.records_deleted = d
                              /\ zone.res.has_failed_records = (d < k)
                              /\ Len(zone.res.failed_records) = k - d)
                /\ Len(zone.records) = k - d
                /\ \A i \in 1..k :
                      C16_Deletes[i].ok
                      = (\A j \in DOMAIN zone.records : zone.records[j] # zone.before[i])
           ELSE /\ ~zone.res.success
                /\ C16_Deletes = <<>>
                /\ zone.records = zone.before

C16_Witness ==
    /\ C16_LookupDone
    /\ Len(zone.before) = 3
    /\ zone.res.success
    /\ zone.res.records_deleted = 2
    /\ zone.res.has_failed_records /\ zone.res.failed_records = <<2>>
    /\ zone.records = <<zone.before[2]>>

C17_Patches == SelectSeq(zone.requests, LAMBDA c : c.method = "PATCH")

C17_LookupDone ==
    /\ zone.op = "update_dns_proxy"
    /\ \E i \in DOMAIN zone.requests :
          zone.requests[i] = ApiCall("GET", "dns_records", 0, FALSE, TRUE)

C17_CanProxy(r) == r.type \in {"A", "AAAA", "CNAME"}

\* C17: update_dns_proxy(subdomain, enable) whose lookup returns records none of
\* type A, AAAA or CNAME fails with "No proxyable record found" and sends no PATCH;
\* otherwise it sends one PATCH request (one call of the retrying client), to the
\* first record in lookup order of type A, AAAA or CNAME, with proxied = enable;
\* no other record changes, and when the provider accepts, the result is success
\* with proxied = enable. Without a successful lookup nothing is patched.
C17_PatchFirstProxyable ==
    zone.op = "update_dns_proxy"
    => IF C17_LookupDone /\ \E i \in DOMAIN zone.before : C17_CanProxy(zone.before[i])
       THEN LET t == CHOOSE i \in DOMAIN zone.before :
                        /\ C17_CanProxy(zone.before[i])
                        /\ \A j \in 1..(i - 1) : ~C17_CanProxy(zone.before[j])
            IN  /\ Len(C17_Patches) = 1
                /\ C17_Patches[1].id = zone.before[t].id
                /\ C17_Patches[1].proxied = zone.enable
                /\ DOMAIN zone.records = DOMAIN zone.before
                /\ \A i \in DOMAIN zone.before : i # t => zone.records[i] = zone.before[i]
                /\ zone.res.success = C17_Patches[1].ok
                /\ zone.res.success
                     => (/\ zone.res.proxied = zone.enable
                         /\ zone.res.record_id = zone.before[t].id
                         /\ zone.records[t] = [zone.before[t] EXCEPT !.proxied = zone.enable])
                /\ ~zone.res.success => zone.records = zone.before
       ELSE /\ ~zone.res.success
            /\ C17_Patches = <<>>
            /\ zone.records = zone.before
            /\ (C17_LookupDone /\ zone.before # <<>>)
                 => zone.res.error = "No proxyable record found"

C17_Witness ==
    /\ C17_LookupDone
    /\ Len(zone.before) = 3
    /\ zone.before[1].type = "MX"
    /\ zone.before[2] = DnsRecord(2, "A", FALSE)
    /\ zone.before[3].type = "CNAME"
    /\ zone.enable /\ zone.res.success
    /\ zone.records[2].proxied /\ zone.records[3] = zone.before[3]

\* C18: in the report of check_all, healthy is the conjunction of the healthy
\* flags of docker and filesystem alone and all_healthy the conjunction over all
\* five checks; so all_healthy implies healthy, and the health_check tool says
\* "healthy" exactly when healthy is true.
C18_Aggregates ==
    hc.pc = "done"
    => LET ok(name) == hc.report.checks[name].healthy
       IN  /\ hc.report.healthy = (ok("docker") /\ ok("filesystem"))
           /\ hc.report.all_healthy
                = (ok("docker") /\ ok("filesystem") /\ ok("dns") /\ ok("network")
                   /\ ok("traefik"))
           /\ hc.report.all_healthy => hc.report.healthy
           /\ (hc.status = "healthy") = hc.report.healthy
           /\ hc.status \in {"healthy", "unhealthy"}

C18_Witness ==
    /\ hc.pc = "done"
    /\ hc.report.checks["docker"].healthy /\ hc.report.checks["filesystem"].healthy
    /\ ~hc.report.checks["dns"].healthy /\ ~hc.report.checks["network"].healthy
    /\ ~hc.report.checks["traefik"].healthy
    /\ hc.report.healthy /\ ~hc.report.all_healthy
    /\ hc.status = "healthy"

C19_EachReported ==
    hc.pc = "done"
    => (/\ DOMAIN hc.report.checks = {"docker", "filesystem", "dns", "network", "traefik"}
        /\ \A name \in DOMAIN hc.report.checks :
              LET e == hc.report.checks[name]
              IN  /\ hc.outcome[name] \in {"ok", "fail", "raise", "hang"}
                  /\ e.healthy = (hc.outcome[name] = "ok")
                  /\ hc.outcome[name] = "hang" => e.message = "Health check timed out"
        /\ hc.clock <= 10
        /\ hc.clock = 10 => \E name \in DOMAIN hc.outcome : hc.outcome[name] = "hang")

\* C19: check_all always completes, with one entry for each of the five checks;
\* the entry of a check depends on that check alone: healthy exactly when the
\* check itself succeeded, unhealthy with the timeout message when it was still
\* running at 10 seconds, unhealthy when it raised; no check is left pending and
\* the report is not waited for beyond the 10 seconds.
C19_AlwaysCompletes ==
    []C19_EachReported /\ ((hc.pc = "gather") ~> (hc.pc = "done"))

C19_Witness ==
    /\ hc.pc = "done"
    /\ hc.outcome["docker"] = "hang" /\ hc.outcome["dns"] = "raise"
    /\ hc.outcome["filesystem"] = "ok" /\ hc.outcome["network"] = "ok"
    /\ hc.outcome["traefik"] = "fail"
    /\ hc.report.checks["docker"].message = "Health check timed out"
    /\ hc.report.checks["filesystem"].healthy /\ hc.report.checks["network"].healthy
    /\ ~hc.report.healthy

\* C20: every invocation of one of the ten tools raises operation_count by
\* exactly 1 before the tool works, so while a tool works the counter is one
\* above its value at entry and after n invocations it equals n.
C20_CountsEveryInvocation ==
    /\ ops.pc = "working" => ops.operation_count = ops.before + 1
    /\ ops.operation_count = ops.invocations

C21_NamePasses(name) ==
    /\ name # <<>>
    /\ Len(name) >= 3 /\ Len(name) <= 50
    /\ \A i \in DOMAIN name : name[i] \in Range(LowerLetters) \cup Digits \cup {"-"}
    /\ name[1] # "-" /\ name[Len(name)] # "-"

C21_SaysExists(res) ==
    \E i \in DOMAIN res.errors :
        /\ res.errors[i].field = "name"
        /\ res.errors[i].message = "Stack already exists"

C22_OtherStacks == (DOMAIN vc.dirs) \ {vc.config.name}

\* C22: a domain is listed in domain_conflicts only if the conflict check ran
\* and another existing stack records it as its APP_DOMAIN, and a port is listed
\* in port_conflicts only if another running stack uses it.
C22_OnlyRealConflicts ==
    vc.pc = "called"
    => /\ \A i \in DOMAIN vc.res.domain_conflicts :
             /\ vc.check_conflicts
             /\ \E other \in C22_OtherStacks :
                   vc.dirs[other].domain = vc.res.domain_conflicts[i]
       /\ \A i \in DOMAIN vc.res.port_conflicts :
             \E other \in C22_OtherStacks :
                 /\ vc.dirs[other].running
                 /\ vc.dirs[other].port = vc.res.port_conflicts[i]

C23_State ==
    /\ vc.pc = "object" => (vc.vr.valid <=> vc.vr.errors = <<>>)
    /\ vc.pc = "called" => (~vc.res.valid <=> vc.res.errors # <<>>)

C23_Step ==
    (vc.pc = "object" /\ vc'.pc = "object" /\ vc'.calls = vc.calls + 1)
    => \/ /\ Len(vc'.vr.errors) = Len(vc.vr.errors) + 1
          /\ SubSeq(vc'.vr.errors, 1, Len(vc.vr.errors)) = vc.vr.errors
          /\ ~vc'.vr.valid
          /\ vc'.vr.warnings = vc.vr.warnings
       \/ /\ Len(vc'.vr.warnings) = Len(vc.vr.warnings) + 1
          /\ SubSeq(vc'.vr.warnings, 1, Len(vc.vr.warnings)) = vc.vr.warnings
          /\ vc'.vr.valid = vc.vr.valid
          /\ vc'.vr.errors = vc.vr.errors

\* C23: a ValidationResult created valid stays valid exactly as long as no error
\* was added: add_error appends one error and clears valid, add_warning appends
\* one warning and touches neither valid nor errors; and a validate_stack_config
\* response is invalid exactly when its errors list is not empty, so warnings
\* alone never make it invalid.
C23_ValidIffNoErrors == []C23_State /\ [][C23_Step]_vars

C23_Witness ==
    /\ vc.pc = "object" /\ vc.calls = 3
    /\ Len(vc.vr.warnings) = 2 /\ Len(vc.vr.errors) = 1
    /\ ~vc.vr.valid

C24_HasError(res, field, message) ==
    \E i \in DOMAIN res.errors :
        res.errors[i].field = field /\ res.errors[i].message = message

\* C24: malformed fields are reported and make the response invalid: the name
\* 'AB' gets the too-short name error; the name 'My_Stack' gets the charset
\* error, whose suggestion is the slugified name 'my-stack'; the domain
\* 'not a domain' gets the domain-format error.
C24_FieldErrors ==
    vc.pc = "called"
    => /\ vc.config.name = <<"A","B">>
          => /\ C24_HasError(vc.res, "name", "Stack name must be at least 3 characters long")
             /\ ~vc.res.valid
       /\ vc.config.name = <<"M","y","_","S","t","a","c","k">>
          => /\ \E i \in DOMAIN vc.res.errors :
                   /\ vc.res.errors[i].field = "name"
                   /\ vc.res.errors[i].message
                        = "Stack name must contain only lowercase letters, numbers, and hyphens"
                   /\ vc.res.errors[i].suggestion = "Try: "
                   /\ vc.res.errors[i].hint = <<"m","y","-","s","t","a","c","k">>
             /\ ~vc.res.valid
       /\ vc.config.domain = <<"n","o","t"," ","a"," ","d","o","m","a","i","n">>
          => /\ C24_HasError(vc.res, "domain", "Invalid domain format")
             /\ ~vc.res.valid
       /\ (\A i \in DOMAIN vc.config.name :
              vc.config.name[i] \in Range(LowerLetters) \cup Digits \cup {"-"})
          => ~C24_HasError(vc.res, "name",
                 "Stack name must contain only lowercase letters, numbers, and hyphens")

C24_Witness ==
    /\ vc.pc = "called"
    /\ vc.config.name = <<"M","y","_","S","t","a","c","k">>
    /\ vc.config.domain = <<"n","o","t"," ","a"," ","d","o","m","a","i","n">>
    /\ Len(vc.res.errors) >= 2 /\ ~vc.res.valid

C25_System ==
    {<<"t","r","a","e","f","i","k">>, <<"m","o","n","i","t","o","r","i","n","g">>,
     <<"s","u","p","a","b","a","s","e">>, <<"a","d","g","u","a","r","d">>,
     <<"_","b","a","c","k","u","p">>, <<"_","s","c","r","i","p","t","s">>,
     <<"_","t","e","m","p","l","a","t","e","s">>, <<"d","o","c","s">>}

C25_ComposeFiles == {"docker-compose.yml", "docker-compose.yaml", "compose.yml", "compose.yaml"}

C25_IsStackDir(d) ==
    /\ d \in DOMAIN ls.base
    /\ ls.base[d].is_dir
    /\ d[1] # "."
    /\ ls.base[d].entries \cap C25_ComposeFiles # {}

\* C25: whatever the base directory holds, list_stacks(include_system=False)
\* returns none of the eight system names, list_stacks(include_system=True)
\* returns each of them that is a directory with a compose file, and in both
\* modes the result holds only non-hidden directories with a compose file, each
\* once, in ascending order.
C25_SystemStacksHidden ==
    (ls.pc = "listed" /\ ls.op = "list_stacks")
    => /\ ~ls.include_system => \A i \in DOMAIN ls.names : ls.names[i] \notin C25_System
       /\ ls.include_system
          => \A d \in C25_System : C25_IsStackDir(d) => d \in Range(ls.names)
       /\ \A i \in DOMAIN ls.names : C25_IsStackDir(ls.names[i])
       /\ \A d \in DOMAIN ls.base :
             (C25_IsStackDir(d) /\ d \notin C25_System) => d \in Range(ls.names)
       /\ \A i, j \in DOMAIN ls.names : i < j => StrLess(ls.names[i], ls.names[j])

C25_Witness ==
    /\ ls.pc = "listed" /\ ls.op = "list_stacks" /\ ~ls.include_system
    /\ <<"t","r","a","e","f","i","k">> \in DOMAIN ls.base
    /\ <<"d","o","c","s">> \in DOMAIN ls.base
    /\ <<".","g","i","t">> \in DOMAIN ls.base
    /\ ls.names = <<<<"Z","e","d">>, <<"a","p","i">>, <<"w","e","b">>>>

C26_Rank(status) ==
    IF status = "running" THEN 0
    ELSE IF status = "stopped" THEN 1
    ELSE IF status = "created" THEN 2
    ELSE IF status = "error" THEN 3
    ELSE 4

C26_InOrder(a, b) ==
    IF ls.sort_by = "name" THEN StrLess(a.name, b.name)
    ELSE IF ls.sort_by = "created" THEN ls.base[a.name].ctime >= ls.base[b.name].ctime
    ELSE IF ls.sort_by = "status" /\ ls.include_status
    THEN \/ C26_Rank(a.status) < C26_Rank(b.status)
         \/ C26_Rank(a.status) = C26_Rank(b.status) /\ StrLess(a.name, b.name)
    ELSE TRUE

\* C26: the list_stacks tool returns the stacks in the order sort_by asks for:
\* by name ascending; by creation time, newest first; by the rank running <
\* stopped < created < error < other, equal ranks by name ascending.
C26_SortedAsAsked ==
    (ls.pc = "listed" /\ ls.op = "tool")
    => \A i, j \in DOMAIN ls.res.stacks :
          i < j => C26_InOrder(ls.res.stacks[i], ls.res.stacks[j])

\* C27: slugify is idempotent; its value holds only characters of [a-z0-9-],
\* neither starts nor ends with '-' and has no two '-' in a row; and
\* slugify('My App!!') = 'my-app'.
C27_SlugifyIdempotent ==
    (fn.pc = "returned" /\ fn.op = "slugify")
    => /\ fn.again = fn.out
       /\ \A i \in DOMAIN fn.out : fn.out[i] \in Range(LowerLetters) \cup Digits \cup {"-"}
       /\ fn.out # <<>> => (fn.out[1] # "-" /\ fn.out[Len(fn.out)] # "-")
       /\ \A i \in 1..(Len(fn.out) - 1) : ~(fn.out[i] = "-" /\ fn.out[i + 1] = "-")
       /\ fn.x = <<"M","y"," ","A","p","p","!","!">> => fn.out = <<"m","y","-","a","p","p">>

C27_Witness ==
    /\ fn.pc = "returned" /\ fn.op = "slugify"
    /\ fn.x = <<"M","y"," ","A","p","p","!","!">>
    /\ fn.out = <<"m","y","-","a","p","p">> /\ fn.again = fn.out

C28_Escape(value) ==
    [i \in 1..(Len(value) + Cardinality({j \in DOMAIN value : value[j] = "&"})) |->
        LET k == CHOOSE j \in DOMAIN value :
                     LET before == j - 1 + Cardinality({h \in 1..(j - 1) : value[h] = "&"})
                     IN  before < i /\ i <= before + (IF value[j] = "&" THEN 2 ELSE 1)
            before == k - 1 + Cardinality({h \in 1..(k - 1) : value[h] = "&"})
        IN  IF value[k] = "&" /\ i = before + 1 THEN "\\" ELSE value[k]]

C28_Matches(content, s) ==
    LET p == <<"_","_">> \o s.token \o <<"_","_">>
    IN  Len(content) >= Len(p) /\ SubSeq(content, 1, Len(p)) = p

\* every declared placeholder of the template replaced by its escaped value, in
\* one pass over the template; everything else is copied
RECURSIVE C28_Expected(_, _)
C28_Expected(content, subs) ==
    IF content = <<>> THEN <<>>
    ELSE IF \E i \in DOMAIN subs : C28_Matches(content, subs[i])
    THEN LET s == subs[CHOOSE i \in DOMAIN subs : C28_Matches(content, subs[i])]
         IN  C28_Escape(s.value)
             \o C28_Expected(SubSeq(content, Len(s.token) + 5, Len(content)), subs)
    ELSE <<Head(content)>> \o C28_Expected(Tail(content), subs)

\* C28: render_template replaces each occurrence of a declared `__TOKEN__` of
\* the template by that token's value with every '&' written as '\&', leaves
\* all other text of the template, other `__X__` included, as it is, and does
\* not rewrite the text it inserted for one token when it handles another.
C28_OnlyTemplateTokens ==
    (fn.pc = "returned" /\ fn.op = "render_template")
    => fn.out = C28_Expected(fn.x, fn.substitutions)

C29_Step ==
    /\ (call'.op \in {"manage_stack", "handler"}
        /\ call'.action \in {"start", "stop", "restart", "logs"})
       => /\ fs' = fs
          /\ \A i \in DOMAIN call'.trace : call'.trace[i].kind \in {"exists", "compose"}
          /\ call'.action = "logs"
             => \A i \in DOMAIN call'.trace :
                   call'.trace[i].kind = "compose" => call'.trace[i].arg[1] = "logs"
    /\ (call'.op \in {"manage_stack", "handler"}
        /\ \E d \in DOMAIN fs : d \notin DOMAIN fs')
       => call'.action = "remove"

\* C29: start, stop, restart and logs leave every file and directory as it was:
\* they only query the engine and run compose commands, logs only the logs
\* command; of the five actions only remove makes a stack directory disappear.
C29_FilesUntouched == [][C29_Step]_vars

C29_Witness ==
    /\ call.op = "manage_stack" /\ call.action = "stop" /\ call.res.success
    /\ call.name \in DOMAIN fs
    /\ \E i \in DOMAIN call.trace :
          call.trace[i].kind = "compose" /\ call.trace[i].arg = <<"down">>

C30_RunningLike == {<<"r","u","n","n","i","n","g">>, <<"u","p">>}

\* C30: once remove_stack has returned success for a stack, none of that
\* stack's containers is in a running-like state, whatever the status derived
\* before the call.
C30_NoContainerLeftRunning ==
    (call.op = "handler" /\ call.action = "remove" /\ call.res.success)
    => \A i \in DOMAIN engine[call.name] :
          Lower(engine[call.name][i]) \notin C30_RunningLike


\* C31: in every interleaving of two create_stack calls whose names sanitize to
\* the same value, at most one call returns success, every file of the stack
\* directory was written by the call that created the directory and is never
\* written a second time, and when both calls have returned and one succeeded the
\* other returned a failure.
C31_State ==
    race.pc = "run" =>
        /\ ~(race.inv[1].result = "success" /\ race.inv[2].result = "success")
        /\ \A k \in 1..Len(race.tree.writes) : race.tree.writes[k][1] = race.tree.maker
        /\ \A i \in Invocations :
              race.inv[i].result = "success" =>
                  /\ race.tree.maker = i /\ race.tree.env = i /\ race.tree.yml = i
                  /\ race.inv[3 - i].pc = "returned" => race.inv[3 - i].result = "failure"

C31_Step ==
    race.pc = "run" =>
        /\ race.tree.env # 0 => race'.tree.env = race.tree.env
        /\ race.tree.yml # 0 => race'.tree.yml = race.tree.yml

C31_OneWinner == []C31_State /\ [][C31_Step]_vars

\* Both calls passed the existence check before either created the directory, one
\* then created it and succeeded, the other failed on os.makedirs
C31_Witness ==
    /\ race.pc = "run"
    /\ race.inv[1].result = "success" /\ race.inv[2].result = "failure"
    /\ ~race.inv[2].seen /\ race.inv[1].name # race.inv[2].name
    /\ race.tree.maker = 1 /\ Len(race.tree.writes) = 2


\* C32: a removal through manage_stack runs with force = false: no call of
\* manage_stack issues `down -v`, and no call of manage_stack deletes the
\* directory of a system stack; on a system stack the removal is refused.
C32_State ==
    (call.op = "manage_stack" /\ call.action = "remove") =>
        /\ \A i \in DOMAIN Commands(call.trace) : Commands(call.trace)[i] # <<"down", "-v">>
        /\ call.name \in SYSTEM_STACKS => "rmtree" \notin Kinds(call.trace)
        /\ (call.name \in SYSTEM_STACKS /\ call.existed) =>
              call.res.error = "Protected system stack"

C32_Step ==
    call'.op = "manage_stack" =>
        \A d \in SYSTEM_STACKS \cap DOMAIN fs : d \in DOMAIN fs' /\ fs'[d] = fs[d]

C32_RemoveIsUnforced == []C32_State /\ [][C32_Step]_vars

\* manage_stack was asked to remove the system stack traefik, which exists
C32_Witness ==
    /\ call.op = "manage_stack" /\ call.action = "remove"
    /\ call.name = N_traefik /\ call.existed
    /\ ~call.res.success /\ N_traefik \in DOMAIN fs

\* manage_stack removed a running stack of the user after `down`
C32_WitnessDown ==
    /\ call.op = "manage_stack" /\ call.action = "remove"
    /\ call.name = N_my_app /\ call.res.success
    /\ Commands(call.trace) = <<(<<"down">>)>> /\ N_my_app \notin DOMAIN fs


\* C33: after a successful lookup of a domain at time t, a call for that domain
\* before t + 300 s returns the ID of that lookup without an HTTP request; a call
\* at or after t + 300 s, or with no earlier success, makes a request and returns
\* failure when the request fails, never the expired ID; a failed lookup leaves
\* the cache as it was; the entries of other domains are never touched.
C33_Step ==
    (zc.pc = "ready" /\ zc'.pc = "returned") =>
        LET d == zc'.last.domain
            before == zc.looked[d]
            served == before.present /\ zc.now - before.timestamp < CacheTtl
        IN  /\ served => (/\ ~zc'.last.http /\ zc'.last.success
                          /\ zc'.last.value = before.zone_id
                          /\ zc'.cache = zc.cache)
            /\ ~served => zc'.last.http
            /\ (zc'.last.http /\ ~zc'.last.success) => zc'.cache = zc.cache
            /\ (zc'.last.http /\ zc'.last.success) =>
                  zc'.cache[cache_key(d)] = CacheEntry(zc'.last.value, zc'.now)
            /\ \A o \in ZoneDomains \ {d} : zc'.cache[cache_key(o)] = zc.cache[cache_key(o)]

C33_ZoneIdCache == [][C33_Step]_vars

\* A lookup made exactly 300 s after the successful one went to the provider,
\* failed, and returned the failure
C33_Witness ==
    /\ zc.pc = "returned" /\ zc.last.http /\ ~zc.last.success
    /\ zc.looked[zc.last.domain].present
    /\ zc.last.at - zc.looked[zc.last.domain].timestamp = CacheTtl
    /\ zc.cache[cache_key(zc.last.domain)].present

\* A call 299 s after the successful lookup was answered from the cache
C33_WitnessHit ==
    /\ zc.pc = "returned" /\ ~zc.last.http /\ zc.last.success
    /\ zc.last.at - zc.looked[zc.last.domain].timestamp = 299


\* C34: cloudflare_api_request makes no further attempt and no sleep after a
\* response whose status is neither 429 nor 5xx, or after an exception other than
\* a timeout or a connection error: such a request is the last entry of the
\* call's log. A body that is not JSON gives a failure carrying the status code,
\* a JSON body that is not a 200/201 success gives a failure with the parsed
\* provider error and the status code, and the exception gives a failure.
C34_Final(e) ==
    /\ e.ev = "request"
    /\ \/ e.kind = "response" /\ e.status # 429 /\ ~(500 <= e.status /\ e.status < 600)
       \/ e.kind = "exception"

C34_NoRetryAfterFinalAnswer ==
    cf.pc # "idle" =>
        \A k \in DOMAIN cf.log :
            C34_Final(cf.log[k]) =>
                /\ k = Len(cf.log)
                /\ cf.log[k].kind = "response" => cf.pc = "done"
                /\ cf.log[k].kind = "exception" => cf.pc \in {"after", "done"}
                /\ (cf.pc = "done" /\ cf.last.kind = "exception") =>
                      (~cf.result.success /\ cf.result.error = FinalResult(cf).error)
                /\ (cf.last.kind = "response" /\ ~cf.last.json) =>
                      cf.result = CfResult(FALSE, "Invalid JSON response from Cloudflare API",
                                           cf.last.status)
                /\ (cf.last.kind = "response" /\ cf.last.json /\ ~IsApiSuccess(cf.last)) =>
                      cf.result = CfResult(FALSE, parse_cloudflare_error(cf.last.errors),
                                           cf.last.status)

\* A call that was retried once after a 5xx, then met a 404 without a JSON body on
\* its second attempt and ended there
C34_Witness ==
    /\ cf.pc = "done" /\ Len(cf.log) = 3
    /\ cf.log[1].status = 500 /\ cf.log[2].ev = "sleep"
    /\ cf.log[3].status = 404 /\ cf.log[3].attempt = 1 /\ ~cf.last.json
    /\ cf.result.status_code = 404

\* A call that ended on an exception outside the two retried kinds
C34_WitnessException ==
    /\ cf.pc = "done" /\ Len(cf.log) = 1 /\ cf.log[1].kind = "exception"
    /\ cf.result.error = "Invalid URL"


C35_Answered(e) == ~e.raised /\ e.status = 200

\* The position of the first service that answers 200, 4 when none does
C35_First(echo) ==
    IF C35_Answered(echo[1]) THEN 1 ELSE IF C35_Answered(echo[2]) THEN 2
    ELSE IF C35_Answered(echo[3]) THEN 3 ELSE 4

C35_IsGet(r) == r.method = "GET"

C35_IsPost(r) == r.method = "POST"

C35_Gets(sent) == SelectSeq(sent, C35_IsGet)

C35_Posts(sent) == SelectSeq(sent, C35_IsPost)

\* C35: create_dns_record with type A and value AUTO, once the token and the zone
\* are there, queries the IP services in the order of the list and stops at the
\* first that answers 200; the trimmed body of that answer is the content of the
\* record it posts; when none answers 200 it returns a failure and posts nothing.
\* With any other type or value no IP service is queried.
C35_AutoUsesFirstAnswer ==
    ip.pc = "returned" =>
        LET first == C35_First(ip.echo)
            gets  == C35_Gets(ip.res.sent)
            posts == C35_Posts(ip.res.sent)
        IN  IF ip.type = "A" /\ ip.value = V_AUTO /\ ip.proceeds
            THEN /\ Len(gets) = (IF first = 4 THEN 3 ELSE first)
                 /\ \A i \in DOMAIN gets : gets[i].url = ip_services[i]
                 /\ first = 4 => (~ip.res.success /\ posts = <<>>)
                 /\ first < 4 => (/\ Len(posts) = 1
                                  /\ posts[1].content = StripWhitespace(ip.echo[first].text))
            ELSE gets = <<>>


\* C36: a record emitted while a LogContext is open carries that context's fields,
\* a record emitted after the context was left does not, and once every context
\* has been left the process-wide log-record factory is the one that was
\* installed before the first enter; in every order of enters and exits.
C36_ContextRestored ==
    logctx.pc = "run" =>
        /\ logctx.record.emitted =>
              /\ logctx.record.open \subseteq logctx.record.fields
              /\ logctx.record.closed \cap logctx.record.fields = {}
        /\ OpenContexts(logctx) = {} => logctx.factory = BaseFactory


\* C37: every request handled by handle_request of the secondary server gets
\* exactly one response whose id is the request's id: error -32601 for a method
\* the server does not know, error -32603 with the exception's text when the
\* handler raises (always so for call_tool), the handler's value as result and no
\* error otherwise; and the request counter has advanced once per handled request.
C37_OneResponsePerRequest ==
    /\ rpc.pc # "idle" => rpc.operation_count = rpc.requests
    /\ (rpc.pc # "idle" /\ rpc.line.kind = "request") =>
          LET q == rpc.line.request
              h == Handler(q.method, q.arg)
          IN  /\ Len(rpc.written) = 1
              /\ rpc.written[1].id = q.id
              /\ q.method \notin Methods =>
                    (rpc.written[1].code = METHOD_NOT_FOUND /\ rpc.written[1].result = None)
              /\ q.method = "call_tool" =>
                    (rpc.written[1].code = INTERNAL_ERROR /\ rpc.written[1].message # "")
              /\ (q.method \in Methods /\ h.raised) =>
                    (rpc.written[1].code = INTERNAL_ERROR /\ rpc.written[1].message = h.text)
              /\ (q.method \in Methods /\ ~h.raised) =>
                    (~rpc.written[1].has_error /\ rpc.written[1].result = h.value)

\* The third request handled named a method the server does not know, after a
\* call_tool request and a request that returned a value
C37_Witness ==
    /\ rpc.pc = "reading" /\ rpc.requests = 3 /\ rpc.operation_count = 3
    /\ rpc.line.kind = "request" /\ rpc.line.request.method = "tools/list"
    /\ rpc.line.request.id = "abc"
    /\ rpc.written = <<MCPResponse("abc", None, METHOD_NOT_FOUND, "Method not found")>>


\* C38: the stdio loop of the secondary server writes exactly one response for
\* every input line it reads: a Parse error (-32700) for a line that is not JSON,
\* an Invalid Request (-32600) for JSON that is not a valid request, the response
\* of handle_request otherwise; and it keeps reading afterwards.
C38_OneResponsePerLine ==
    (rpc.pc # "idle" /\ rpc.line.kind # "none") =>
        /\ rpc.pc = "reading"
        /\ Len(rpc.written) = 1
        /\ rpc.line.kind \in {"blank", "not_json"} => rpc.written[1].code = PARSE_ERROR
        /\ rpc.line.kind \in {"json_list", "no_method", "bad_id"} =>
              rpc.written[1].code = INVALID_REQUEST


C39_StartupOrder == <<"config", "checks_started", "checks_done", "resources", "prompts",
                      "ready">>

C39_IsStartupStep(e) == e \in Range(C39_StartupOrder)

C39_Startup(log) == SelectSeq(log, C39_IsStartupStep)

\* C39: the startup takes its steps in one order: configuration, all health checks
\* to completion, registration of resources and prompts, readiness. An unhealthy
\* report adds a warning and nothing else: the startup is not ended and the
\* registration is not skipped. At shutdown the operations still tracked are
\* reported and left as they are.
C39_State ==
    life.pc # "idle" =>
        /\ life.pc \in {"start", "configured", "checking", "checked", "registered",
                        "serving", "stopped"}
        /\ LET s == C39_Startup(life.log)
           IN  /\ Len(s) <= Len(C39_StartupOrder) /\ s = SubSeq(C39_StartupOrder, 1, Len(s))
               /\ life.pc \in {"serving", "stopped"} => s = C39_StartupOrder
               /\ "shutdown" \in Range(life.log) =>
                     (life.pc = "stopped" /\ life.log[Len(life.log)] = "shutdown_complete")
        /\ life.resources # {} => (life.pending = {} /\ life.pc \notin {"start", "configured", "checking"})
        /\ life.pc \in {"registered", "serving", "stopped"} =>
              (life.resources = Resources /\ life.prompts = Prompts)
        /\ ("unhealthy_warning" \in Range(life.log)) <=>
              (~life.healthy /\ life.pc \notin {"start", "configured", "checking"})

C39_Step ==
    (life.pc = "serving" /\ life'.pc = "stopped") =>
        /\ life'.active = life.active
        /\ ("active_warning" \in Range(life'.log)) <=> (life.active # {})

====
